---- MODULE Spec2Model ----
(***************************************************************************)
(* The CSV-driven level-sequence generator                                 *)
(* (unreal/render/Core/Python/create_level_sequences_csv.py) as a state    *)
(* machine: the __main__ row loop, the add_level_sequence steps it calls   *)
(* for every flushed run of Body rows, the layer cleanup and the exit.     *)
(*                                                                         *)
(* Representation of the text the script handles:                          *)
(*  - an optional value (Python None / a value) is <<>> / <<v>>;           *)
(*  - a Comment field is the sequence of its ";"-separated segments, each  *)
(*    segment the sequence of its "="-separated parts, so "" is <<<<"">>>> *)
(*    and "a=b;c" is << <<"a","b">>, <<"c">> >>;                           *)
(*  - a Body name is the sequence of its "_"-separated tokens;             *)
(*  - an asset path is the record of the pieces the f-string composes.     *)
(***************************************************************************)
EXTENDS Integers, Sequences, FiniteSets, TLC

\* Longest CSV (data rows after the header) the model reads.
MaxRows == 3

\* Number of sequences (a Group row and its Body row) of the CSV files read
\* beside those of at most MaxRows rows.
MaxGroups == 2

\* Number of sequences each of two concurrent runs generates.
MaxJobs == 2

\* Number of rows of the CSV files given to the panoramic expander.
MaxPanoRows == 4

\* Length of the import list and number of batches of the importers.
MaxFiles == 7
MaxBatches == 4

\* create_level_sequences_csv.py:18
WARMUP_FRAMES == 10

None == <<>>
Some(v) == <<v>>
IsNone(o) == o = <<>>
Val(o) == o[1]

(***************************************************************************)
(* Number literals: int() and float() succeed on these strings and raise   *)
(* ValueError on every other string.                                       *)
(***************************************************************************)
NumberLiterals ==
    ("0" :> 0) @@ ("1" :> 1) @@ ("2" :> 2) @@ ("3" :> 3) @@ ("7" :> 7) @@
    ("30" :> 30) @@ ("60" :> 60) @@ ("100" :> 100)

IsNumber(s) == s \in DOMAIN NumberLiterals
ToNumber(s) == NumberLiterals[s]

(***************************************************************************)
(* Comment parsing: values = Comment.split(";"), then for each value       *)
(* value.split("=")[0] and value.split("=")[1], then dict(zip(keys,        *)
(* values)).  A segment with no "=" has one part and [1] raises IndexError.*)
(***************************************************************************)
Malformed(comment) == \E i \in DOMAIN comment : Len(comment[i]) < 2

ConfigKeys(comment) == {comment[i][1] : i \in DOMAIN comment}

LastSegment(comment, k) ==
    CHOOSE i \in DOMAIN comment :
        /\ comment[i][1] = k
        /\ \A j \in DOMAIN comment : comment[j][1] = k => j <= i

\* dict(zip(dict_keys, dict_values)): a later segment overwrites an earlier one.
ParseConfig(comment) ==
    [k \in ConfigKeys(comment) |-> comment[LastSegment(comment, k)][2]]

Has(config, k) == k \in DOMAIN config

(***************************************************************************)
(* The inputs.  A CSV row has the columns Type, Index, Body, the pose and  *)
(* Comment.  csv_rows keeps the Type and Index columns of every row (the   *)
(* columns the row loop reads ahead of the row it processes); the Body and *)
(* Comment columns of a row are drawn when the loop reaches the row.       *)
(***************************************************************************)
KV(k, v) == <<k, v>>

GroupComments ==
    { \* sequence_name=seq_0;frames=100;camera_hfov=60
      << KV("sequence_name", "seq_0"), KV("frames", "100"), KV("camera_hfov", "60") >>,
      \* sequence_name=seq_0;frames=100;camera_hfov=60;pov_camera=true;view_id=3
      << KV("sequence_name", "seq_0"), KV("frames", "100"), KV("camera_hfov", "60"),
         KV("pov_camera", "true"), KV("view_id", "3") >>,
      \* sequence_name=seq_1;frames=2;hdri=sky;cameraroot_yaw=30
      << KV("sequence_name", "seq_1"), KV("frames", "2"), KV("hdri", "sky"),
         KV("cameraroot_yaw", "30") >>,
      \* sequence_name=seq_1;frames=0;pov_camera=true
      << KV("sequence_name", "seq_1"), KV("frames", "0"), KV("pov_camera", "true") >>,
      \* sequence_name=seq_1;frames=2;pov_camera=true;view_id=7
      << KV("sequence_name", "seq_1"), KV("frames", "2"), KV("pov_camera", "true"),
         KV("view_id", "7") >>,
      \* sequence_name=seq_0=b;frames=2;frames=100;camera_hfov=60
      << <<"sequence_name", "seq_0", "b">>, KV("frames", "2"), KV("frames", "100"),
         KV("camera_hfov", "60") >>,
      \* sequence_name=seq_1
      << KV("sequence_name", "seq_1") >>,
      \* frames=2
      << KV("frames", "2") >> }

BodyComments ==
    { \* the empty Comment field
      << <<"">> >>,
      \* texture_body=skin_f01
      << KV("texture_body", "skin_f01") >>,
      \* texture_body=skin_f01;texture_clothing=tex_01
      << KV("texture_body", "skin_f01"), KV("texture_clothing", "tex_01") >>,
      \* texture_body=skin_f01;texture_clothing=tex_01;texture_clothing_overlay=ov_01
      << KV("texture_body", "skin_f01"), KV("texture_clothing", "tex_01"),
         KV("texture_clothing_overlay", "ov_01") >>,
      \* start_frame=1;hair=hair_01
      << KV("start_frame", "1"), KV("hair", "hair_01") >>,
      \* texture_clothing_overlay=ov_01
      << KV("texture_clothing_overlay", "ov_01") >> }

\* rp_aaron_posed_002_0000, a name with no underscore (body) and a name that
\* ends with its only underscore (body_)
BodyNames == { <<"rp", "aaron", "posed", "002", "0000">>, <<"body">>, <<"body", "">> }

ZeroPose == [x |-> 0, y |-> 0, z |-> 0, yaw |-> 0, pitch |-> 0, roll |-> 0]

\* The Index column of the row at position i (1-based): the row's 0-based
\* position, as the CSV writers number it, or a value that is too small or
\* too large for it.
IndexValues(i) == {i - 1, 0, MaxRows}

RowHeads(i) ==
    {[Type |-> "Comment", Index |-> i - 1], [Type |-> "Group", Index |-> i - 1]}
        \cup {[Type |-> "Body", Index |-> x] : x \in IndexValues(i)}

CsvFiles ==
    UNION { {rows \in [1..n -> UNION {RowHeads(i) : i \in 1..n}] :
                \A i \in 1..n : rows[i] \in RowHeads(i)} : n \in 0..MaxRows }

\* The CSV files of MaxGroups sequences: every Group row is followed by one
\* Body row and the Index column numbers the rows by position.
SequenceFiles ==
    { [i \in 1..(2 * MaxGroups) |->
          [Type |-> IF i % 2 = 1 THEN "Group" ELSE "Body", Index |-> i - 1]] }

IsSequenceFile(rows) == Len(rows) > MaxRows

\* The Group Comments of the files of several sequences: one that gives
\* every optional key and one that gives none.
SequenceGroupComments ==
    { \* sequence_name=seq_0;frames=2;hdri=sky;camera_hfov=60;pov_camera=true;view_id=3;
      \* cameraroot_yaw=30;cameraroot_x=1;cameraroot_y=2;cameraroot_z=3
      << KV("sequence_name", "seq_0"), KV("frames", "2"), KV("hdri", "sky"),
         KV("camera_hfov", "60"), KV("pov_camera", "true"), KV("view_id", "3"),
         KV("cameraroot_yaw", "30"), KV("cameraroot_x", "1"), KV("cameraroot_y", "2"),
         KV("cameraroot_z", "3") >>,
      \* sequence_name=seq_1;frames=2
      << KV("sequence_name", "seq_1"), KV("frames", "2") >>,
      \* sequence_name=seq_1;frames=2;camera_hfov=60;cameraroot_x=1;cameraroot_y=2;cameraroot_z=3
      << KV("sequence_name", "seq_1"), KV("frames", "2"), KV("camera_hfov", "60"),
         KV("cameraroot_x", "1"), KV("cameraroot_y", "2"), KV("cameraroot_z", "3") >>,
      \* sequence_name=seq_0;frames=2;camera_hfov=60;cameraroot_yaw=30
      << KV("sequence_name", "seq_0"), KV("frames", "2"), KV("camera_hfov", "60"),
         KV("cameraroot_yaw", "30") >> }

CameraMovements == {"Static", "Zoom", "Orbit"}

\* The CSV inputs explored are those of at most MaxRows rows whose Index
\* column numbers the rows by position, with every Comment above, those of at
\* most MaxRows rows with any Index column, with the plain Comments below,
\* and the files of MaxGroups sequences with the Comments of SequenceGroupComments.
WellIndexed(rows) == \A i \in DOMAIN rows : rows[i].Index = i - 1

PlainGroupComments ==
    { << KV("sequence_name", "seq_0"), KV("frames", "100"), KV("camera_hfov", "60") >> }

PlainBodyComments == { << KV("texture_body", "skin_f01") >> }

GroupCommentsOf(rows) ==
    IF IsSequenceFile(rows) THEN SequenceGroupComments
    ELSE IF WellIndexed(rows) THEN GroupComments ELSE PlainGroupComments

\* The Body comments of the sequence files.
SequenceBodyComments ==
    { \* texture_body=skin_f01
      << KV("texture_body", "skin_f01") >>,
      \* texture_body=skin_f01;texture_clothing_overlay=ov_01;hair=hair_01
      << KV("texture_body", "skin_f01"), KV("texture_clothing_overlay", "ov_01"),
         KV("hair", "hair_01") >> }

BodyCommentsOf(rows) ==
    IF IsSequenceFile(rows) THEN SequenceBodyComments
    ELSE IF WellIndexed(rows) THEN BodyComments ELSE PlainBodyComments

\* The X, Y, Z, Yaw, Pitch, Roll columns of a Body row: the sequence files
\* place their bodies at the origin with a yaw of 90 or 180 degrees, the other
\* files with a yaw of 0.
BodyPoses == {[ZeroPose EXCEPT !.yaw = yaw] : yaw \in {90, 180}}
BodyPosesOf(rows) == IF IsSequenceFile(rows) THEN BodyPoses ELSE {ZeroPose}

PlainBodyNames == { <<"rp", "aaron", "posed", "002", "0000">>, <<"body">> }

BodyNamesOf(rows) ==
    IF IsSequenceFile(rows) THEN { <<"rp", "aaron", "posed", "002", "0000">> }
    ELSE IF WellIndexed(rows) THEN BodyNames ELSE PlainBodyNames

\* The sequence names the Group rows above give.
SequenceNames == {"seq_0", "seq_1"}

VARIABLES
    csv_rows, camera_movement, camera_actor, ground_truth_logger_actor,
    pc, row_index, row,
    sequence_name, sequence_frames, hdri_name, camera_hfov, camera_pose,
    cameraroot_yaw, cameraroot_location, pov_camera, view_id,
    sequence_bodies, level_sequence_hdri_template,
    level_sequences, layers, als,
    success, exit_status, fatal, calls,
    runs, pano, shard

ctx == <<sequence_name, sequence_frames, hdri_name, camera_hfov, camera_pose,
         cameraroot_yaw, cameraroot_location, pov_camera, view_id>>
env == <<csv_rows, camera_movement, camera_actor, ground_truth_logger_actor, runs, pano, shard>>
host == <<level_sequences, layers>>
vars == <<env, pc, row_index, row, ctx, sequence_bodies,
          level_sequence_hdri_template, host, als, success, exit_status,
          fatal, calls>>

NoRow == [Type |-> "", Index |-> 0, Body |-> <<>>, Comment |-> <<>>, Pose |-> ZeroPose]
NoCall == [name |-> None, sequence_body_index |-> 0, pov_skeletal_binding |-> None]

Init ==
    /\ csv_rows = <<>>
    /\ camera_movement \in CameraMovements
    /\ camera_actor \in BOOLEAN
    /\ ground_truth_logger_actor \in BOOLEAN
    /\ pc = "start"
    /\ row_index = 0
    /\ row = NoRow
    /\ sequence_name = None
    /\ sequence_frames = 0
    /\ hdri_name = None
    /\ camera_hfov = None
    /\ camera_pose = None
    /\ cameraroot_yaw = None
    /\ cameraroot_location = None
    /\ pov_camera = FALSE
    /\ view_id = None
    /\ sequence_bodies = <<>>
    /\ level_sequence_hdri_template = <<"LS", "Template", "HDRI">>
    /\ level_sequences = [n \in SequenceNames |-> None]
    /\ layers = {}
    /\ als = NoCall
    /\ success = TRUE
    /\ exit_status = None
    /\ fatal = ""
    /\ calls = <<>>
    /\ runs = <<>>
    /\ pano = <<>>
    /\ shard = <<>>

(***************************************************************************)
(* __main__, lines 754-802: actor lookup, CSV read, Comment rows.          *)
(***************************************************************************)
\* The for loop moves on from row i, or ends after the last row.
Continue(i) ==
    IF i < Len(csv_rows)
    THEN /\ pc' = "rows"
         /\ row_index' = i + 1
    ELSE /\ pc' = "finish"
         /\ row_index' = i

\* An uncaught Python exception ends the script: no later statement runs,
\* sys.exit is not called.
Raise(kind) ==
    /\ pc' = "crashed"
    /\ fatal' = kind

\* success = False; break
Break(kind) ==
    /\ pc' = "finish"
    /\ success' = FALSE
    /\ fatal' = kind

\* Lines 768-788: the actors of the map are looked up; with a camera actor
\* the CSV file is opened and its rows are read.
FindActors ==
    /\ pc = "start"
    /\ IF ~camera_actor
       THEN /\ Break("CameraActorMissing")
            /\ UNCHANGED <<row_index, csv_rows>>
       ELSE /\ csv_rows' \in CsvFiles \cup SequenceFiles
            /\ IF Len(csv_rows') = 0
               THEN pc' = "finish" /\ row_index' = 0
               ELSE pc' = "rows" /\ row_index' = 1
            /\ UNCHANGED <<success, fatal>>
    /\ UNCHANGED <<camera_movement, camera_actor, ground_truth_logger_actor, runs, pano, shard, row, ctx,
                   sequence_bodies, level_sequence_hdri_template,
                   host, als, exit_status, calls>>

ProcessComment ==
    /\ pc = "rows"
    /\ csv_rows[row_index].Type = "Comment"
    /\ row' = [NoRow EXCEPT !.Type = "Comment", !.Index = csv_rows[row_index].Index]
    /\ Continue(row_index)
    /\ UNCHANGED <<env, ctx, sequence_bodies, level_sequence_hdri_template, host,
                   als, success, exit_status, fatal, calls>>

(***************************************************************************)
(* __main__, lines 804-856: a Group row.                                   *)
(***************************************************************************)
\* The exception the Group row's parsing raises, "" when it raises none.
GroupError(comment) ==
    IF Malformed(comment) THEN "MalformedComment"      \* IndexError, line 813
    ELSE LET c == ParseConfig(comment) IN
         IF ~Has(c, "sequence_name") THEN "MissingKey" \* KeyError, line 815
         ELSE IF ~Has(c, "frames") THEN "MissingKey"   \* KeyError, line 816
         ELSE IF ~IsNumber(c["frames"]) THEN "BadNumber"
         ELSE IF Has(c, "camera_hfov") /\ ~IsNumber(c["camera_hfov"]) THEN "BadNumber"
         ELSE IF /\ Has(c, "pov_camera") /\ c["pov_camera"] = "true"
                 /\ Has(c, "view_id") /\ ~IsNumber(c["view_id"]) THEN "BadNumber"
         ELSE IF Has(c, "cameraroot_yaw") /\ ~IsNumber(c["cameraroot_yaw"]) THEN "BadNumber"
         ELSE IF Has(c, "cameraroot_x") /\ ~(Has(c, "cameraroot_y") /\ Has(c, "cameraroot_z"))
              THEN "MissingKey"
         ELSE IF /\ Has(c, "cameraroot_x")
                 /\ \E k \in {"cameraroot_x", "cameraroot_y", "cameraroot_z"} : ~IsNumber(c[k])
              THEN "BadNumber"
         ELSE ""

OptNumber(c, k) == IF Has(c, k) THEN Some(ToNumber(c[k])) ELSE None

\* A generator that logs the Group row's error and moves on to the next row,
\* the pending context left as the previous Group row set it.
GroupFailure_Skip(kind) ==
    /\ Continue(row_index)
    /\ fatal' = kind
    /\ UNCHANGED <<ctx, sequence_bodies>>

\* The exception leaves the Group row's statements: nothing after the
\* raising line runs, neither in this row nor in a later one.
GroupFailure(kind) ==
    /\ Raise(kind)
    /\ UNCHANGED <<row_index, ctx, sequence_bodies>>

IsPov(c) == Has(c, "pov_camera") /\ c["pov_camera"] = "true"

ProcessGroup ==
    /\ pc = "rows"
    /\ csv_rows[row_index].Type = "Group"
    /\ \E comment \in GroupCommentsOf(csv_rows) :
        /\ row' = [Type |-> "Group", Index |-> csv_rows[row_index].Index,
                   Body |-> <<>>, Comment |-> comment, Pose |-> ZeroPose]
        /\ IF GroupError(comment) # ""
           THEN GroupFailure(GroupError(comment))
           ELSE LET c == ParseConfig(comment) IN
                /\ camera_pose' = Some(ZeroPose)
                /\ sequence_name' = Some(c["sequence_name"])
                /\ sequence_frames' = ToNumber(c["frames"])
                /\ hdri_name' = IF Has(c, "hdri") THEN Some(c["hdri"]) ELSE None
                /\ camera_hfov' = OptNumber(c, "camera_hfov")
                /\ pov_camera' = IsPov(c)
                /\ view_id' = IF IsPov(c) THEN OptNumber(c, "view_id") ELSE None
                /\ cameraroot_yaw' = OptNumber(c, "cameraroot_yaw")
                /\ cameraroot_location' =
                       IF Has(c, "cameraroot_x")
                       THEN Some([x |-> ToNumber(c["cameraroot_x"]),
                                  y |-> ToNumber(c["cameraroot_y"]),
                                  z |-> ToNumber(c["cameraroot_z"])])
                       ELSE cameraroot_location   \* no else branch at line 847
                /\ sequence_bodies' = <<>>
                /\ Continue(row_index)
                /\ UNCHANGED fatal
    /\ UNCHANGED <<env, level_sequence_hdri_template, host, als, success,
                   exit_status, calls>>

(***************************************************************************)
(* __main__, lines 858-970: a Body row.                                    *)
(***************************************************************************)
\* The exception the Body row's Comment parsing raises, "" when none.
BodyError(comment) ==
    IF Malformed(comment) THEN "MalformedComment"      \* IndexError, line 876
    ELSE LET c == ParseConfig(comment) IN
         IF Has(c, "start_frame") /\ ~IsNumber(c["start_frame"]) THEN "BadNumber"
         ELSE ""

OptString(c, k) == IF Has(c, k) THEN Some(c[k]) ELSE None

\* re.search(r"(.+)_(.+)", body): the greedy first group takes everything up
\* to the final underscore.
\* re.search(r"(.+)_(.+)", body): the underscores of the name that have at
\* least one character before them and one after them, as token positions.
SplitPoints(body) ==
    {i \in 1..(Len(body) - 1) :
        /\ i >= 2 \/ body[1] # ""
        /\ Len(body) - i >= 2 \/ body[Len(body)] # ""}

NameMatches(body) == SplitPoints(body) # {}
Subject(body) == SubSeq(body, 1, Len(body) - 1)
AnimationId(body) == body[Len(body)]

\* str.replace on the "_"-separated tokens of a path piece.
ReplaceToken(tokens, old, new) ==
    [i \in DOMAIN tokens |-> IF tokens[i] = old THEN new ELSE tokens[i]]

\* str.replace(old, f"{old}_{suffix}") on the "_"-separated tokens.
RECURSIVE AppendToToken(_, _, _)
AppendToToken(tokens, old, suffix) ==
    IF tokens = <<>> THEN <<>>
    ELSE (IF Head(tokens) = old THEN <<old, suffix>> ELSE <<Head(tokens)>>)
             \o AppendToToken(Tail(tokens), old, suffix)

\* f"GeometryCache'{geometry_cache_body_root}{subject}/{body}.{body}'"
BodyPath(body) ==
    [class |-> "GeometryCache", root |-> <<"SMPLX", "abc">>,
     subject |-> Subject(body), asset |-> body]

\* body_path.replace("SMPLX", "Clothing").replace(animation_id, f"{animation_id}_clo")
ClothingPath(body) ==
    LET clo(tokens) ==
            AppendToToken(ReplaceToken(tokens, "SMPLX", "Clothing"),
                          AnimationId(body), "clo")
    IN [class |-> "GeometryCache", root |-> clo(BodyPath(body).root),
        subject |-> clo(BodyPath(body).subject), asset |-> clo(BodyPath(body).asset)]

\* f"StaticMesh'{hair_root}{hair_type}/{hair_type}.{hair_type}'"
HairPath(hair_type) ==
    [class |-> "StaticMesh", root |-> <<"Hair", "CC", "Meshes">>,
     subject |-> <<hair_type>>, asset |-> <<hair_type>>]

\* f"AnimSequence'{animation_root}{subject}/{body}_Anim.{body}_Anim'"
AnimationPath(body) ==
    [class |-> "AnimSequence", root |-> <<"SMPLX", "fbx">>,
     subject |-> Subject(body), asset |-> body \o <<"Anim">>]

\* f"SkeletalMesh'{skeletal_body_root}{subject}/{body}.{body}'"
SkeletalMeshPath(body) ==
    [class |-> "SkeletalMesh", root |-> <<"SMPLX", "fbx">>,
     subject |-> Subject(body), asset |-> body]

\* The SequenceBody of lines 954-958.
MakeSequenceBody(body, c, pose, pov) ==
    [subject |-> Subject(body),
     body_path |-> BodyPath(body),
     clothing_path |-> IF Has(c, "texture_clothing") THEN Some(ClothingPath(body)) ELSE None,
     hair_path |-> IF Has(c, "hair") THEN Some(HairPath(c["hair"])) ELSE None,
     animation_path |-> IF Has(c, "hair") THEN Some(AnimationPath(body)) ELSE None,
     x |-> pose.x, y |-> pose.y, z |-> pose.z,
     yaw |-> pose.yaw, pitch |-> pose.pitch, roll |-> pose.roll,
     start_frame |-> IF Has(c, "start_frame") THEN ToNumber(c["start_frame"]) ELSE 0,
     texture_body |-> OptString(c, "texture_body"),
     texture_clothing |-> OptString(c, "texture_clothing"),
     texture_clothing_overlay |-> OptString(c, "texture_clothing_overlay"),
     skeletal_mesh_path |-> IF pov THEN Some(SkeletalMeshPath(body)) ELSE None,
     skeletal_animation_path |-> IF pov THEN Some(AnimationPath(body)) ELSE None]

\* A template path that gets the suffix at every Body row with hair.
WithHairSuffix_Always(template) == template \o <<"Hair">>

\* if not level_sequence_hdri_template.endswith("_Hair"): ... += "_Hair"
WithHairSuffix(template) ==
    IF template[Len(template)] = "Hair" THEN template ELSE template \o <<"Hair">>

\* Lines 962-967, for the Body row at position i (1-based) whose Index
\* column is index: "flush", "continue", or "IndexError" when the look-ahead
\* csv_rows[row_index + 1] is past the last row.
AddSequenceDecision(i, index) ==
    IF index >= Len(csv_rows) - 1 THEN "flush"
    ELSE IF i + 1 > Len(csv_rows) THEN "IndexError"
    ELSE IF csv_rows[i + 1].Type # "Body" THEN "flush"
    ELSE "continue"

\* The position of the Group row the Body row at position i follows, 0 if none.
GroupOf(i) ==
    IF \E j \in 1..i : csv_rows[j].Type = "Group"
    THEN CHOOSE j \in 1..i : /\ csv_rows[j].Type = "Group"
                             /\ \A k \in (j + 1)..i : csv_rows[k].Type # "Group"
    ELSE 0

ProcessBody ==
    /\ pc = "rows"
    /\ csv_rows[row_index].Type = "Body"
    /\ \E body \in BodyNamesOf(csv_rows), comment \in BodyCommentsOf(csv_rows),
          pose \in BodyPosesOf(csv_rows), have_body, have_clothing \in BOOLEAN :
       LET index == csv_rows[row_index].Index
           c == ParseConfig(comment)
           sequence_body == MakeSequenceBody(body, c, pose, pov_camera)
           decision == AddSequenceDecision(row_index, index)
       IN
        /\ row' = [Type |-> "Body", Index |-> index, Body |-> body,
                   Comment |-> comment, Pose |-> pose]
        /\ IF BodyError(comment) # ""
           THEN /\ Raise(BodyError(comment))
                /\ UNCHANGED <<row_index, sequence_bodies, level_sequence_hdri_template,
                               als, success, calls>>
           ELSE
            /\ level_sequence_hdri_template' =
                   IF Has(c, "hair") THEN WithHairSuffix(level_sequence_hdri_template)
                   ELSE level_sequence_hdri_template
            /\ IF ~NameMatches(body)
               THEN /\ Break("InvalidBodyName")
                    /\ UNCHANGED <<row_index, sequence_bodies, als, calls>>
               ELSE IF ~have_body
               THEN /\ Break("MissingBodyAsset")
                    /\ UNCHANGED <<row_index, sequence_bodies, als, calls>>
               ELSE IF Has(c, "texture_clothing") /\ ~have_clothing
               THEN /\ Break("MissingClothingAsset")
                    /\ UNCHANGED <<row_index, sequence_bodies, als, calls>>
               ELSE
                /\ sequence_bodies' = Append(sequence_bodies, sequence_body)
                /\ CASE decision = "IndexError" ->
                          /\ Raise("LookAheadIndexError")
                          /\ UNCHANGED <<row_index, als, success, calls>>
                     [] decision = "continue" ->
                          /\ Continue(row_index)
                          /\ UNCHANGED <<als, success, fatal, calls>>
                     [] decision = "flush" ->
                          /\ pc' = "als_create"
                          /\ als' = [NoCall EXCEPT !.name = sequence_name]
                          /\ calls' = Append(calls,
                                 [name |-> sequence_name, group |-> GroupOf(row_index),
                                  row |-> row_index, bodies |-> Len(sequence_bodies')])
                          /\ UNCHANGED <<row_index, success, fatal>>
    /\ UNCHANGED <<env, ctx, host, exit_status>>

(***************************************************************************)
(* Level sequences (timelines) of the host.  A level sequence holds its    *)
(* bindings in the order they were added; a binding's id is its position.  *)
(***************************************************************************)
Track(type) ==
    [type |-> type, property |-> "", range |-> None, defaults |-> <<>>,
     keys |-> <<>>, target |-> None, socket |-> ""]

Binding(name, class, spawnable) ==
    [name |-> name, class |-> class, spawnable |-> spawnable, body |-> -1,
     layer |-> "", parent |-> None, hidden |-> FALSE, asset |-> None,
     material |-> None, tracks |-> <<>>]

Key(time, value) == [time |-> time, value |-> value]

NoDefaults ==
    [x |-> None, y |-> None, z |-> None, roll |-> None, pitch |-> None, yaw |-> None,
     sx |-> None, sy |-> None, sz |-> None]

\* A MovieScene3DTransformTrack with an unbounded section and the six pose
\* channels defaulted (lines 180-191, 283-296).
PoseTrack(x, y, z, roll, pitch, yaw) ==
    [Track("Transform") EXCEPT
        !.defaults = [NoDefaults EXCEPT !.x = Some(x), !.y = Some(y), !.z = Some(z),
                         !.roll = Some(roll), !.pitch = Some(pitch), !.yaw = Some(yaw)]]

\* sensor_width / (2.0 * tan(radians(camera_hfov) / 2)), kept unevaluated.
get_focal_length(sensor_width, hfov) == [sensor_width |-> sensor_width, hfov |-> hfov]

\* tan(radians(camera_hfov) / 2) of line 300 in ten-thousandths, tabulated for
\* an HFOV of 10, 20, ..., 170 degrees.
TanHalf ==
    (10 :> 875) @@ (20 :> 1763) @@ (30 :> 2679) @@ (40 :> 3640) @@
    (50 :> 4663) @@ (60 :> 5774) @@ (70 :> 7002) @@ (80 :> 8391) @@
    (90 :> 10000) @@ (100 :> 11918) @@ (110 :> 14281) @@ (120 :> 17321) @@
    (130 :> 21445) @@ (140 :> 27475) @@ (150 :> 37321) @@ (160 :> 56713) @@
    (170 :> 114301)

\* A focal length computed without the factor 2.0.
FocalLength_NoFactor(sensor_width, hfov) ==
    (sensor_width * 10000000) \div TanHalf[hfov]

\* Line 300, sensor_width / (2.0 * tan(radians(camera_hfov)/2)), evaluated in
\* thousandths of a millimetre.
FocalLength(sensor_width, hfov) ==
    (sensor_width * 10000000) \div (2 * TanHalf[hfov])

FocalLengthTrack(focal_length) ==
    [Track("Float") EXCEPT !.property = "CurrentFocalLength", !.defaults = <<focal_length>>]

EmptySequence ==
    [template |-> None, display_rate |-> 0, playback_start |-> None,
     playback_end |-> None, camera_cut |-> None, hdri |-> None,
     bindings |-> <<>>, saved |-> FALSE]

CameraCut(start, end, camera) == [start |-> start, end |-> end, camera |-> camera]

\* What the host's template assets hold.  The camera-movement templates
\* LS_Camera_<preset> hold a camera cut on the camera binding, the camera and
\* its component with a keyframed focal length, and (Orbit) the camera root
\* with a keyframed yaw; the HDRI template holds the Skylight binding.
TemplateKeys == <<Key(0, 0), Key(30, 90)>>

CameraTemplate(movement) ==
    [EmptySequence EXCEPT
        !.template = Some(<<"LS", "Camera", movement>>),
        !.camera_cut = Some(CameraCut(Some(0), Some(30), Some(1))),
        !.bindings =
            << Binding("BE_CineCameraActor_Blueprint", "CineCameraActor", FALSE),
               [Binding("CameraComponent", "CineCameraComponent", FALSE) EXCEPT
                   !.parent = Some(1),
                   !.tracks = << [Track("Float") EXCEPT
                                     !.property = "CurrentFocalLength",
                                     !.keys = IF movement = "Zoom" THEN TemplateKeys
                                              ELSE <<>>] >>] >>
            \o (IF movement = "Orbit"
                THEN << [Binding("BE_CameraRoot", "Actor", FALSE) EXCEPT
                            !.tracks = << [Track("Transform") EXCEPT
                                              !.defaults = NoDefaults,
                                              !.keys = TemplateKeys] >>] >>
                ELSE <<>>)]

HdriTemplate(path, has_camera_cut) ==
    [EmptySequence EXCEPT
        !.template = Some(path),
        !.camera_cut = IF has_camera_cut THEN Some(CameraCut(Some(0), Some(30), None))
                       ELSE None,
        !.bindings = << [Binding("Skylight", "SkyLight", FALSE) EXCEPT
                            !.tracks = << Track("Cubemap") >>] >>]

BindingNamed(ls, name) ==
    IF \E i \in DOMAIN ls.bindings : ls.bindings[i].name = name
    THEN Some(CHOOSE i \in DOMAIN ls.bindings : ls.bindings[i].name = name)
    ELSE None

(***************************************************************************)
(* add_level_sequence, lines 365-409: delete the old asset, create the     *)
(* new one or duplicate it from a template.                                *)
(***************************************************************************)
\* return False: the caller sees success = False after the call.
ReturnFalse(kind) ==
    /\ pc' = "cleanup"
    /\ success' = FALSE
    /\ fatal' = kind

\* The asset at level_sequences_root + name is replaced by ls.
Store(name, ls) == level_sequences' = [level_sequences EXCEPT ![name] = ls]

\* A create step that leaves an asset that already exists at the path.
CreateAsset_KeepExisting(name, ls) ==
    IF IsNone(level_sequences[name]) THEN Store(name, ls) ELSE UNCHANGED level_sequences

\* Lines 370-405: an asset that exists at the path is deleted, then ls is
\* created or duplicated there (None when the template is missing).
CreateAsset(name, ls) == Store(name, ls)

ALS_Create ==
    /\ pc = "als_create"
    /\ IF IsNone(als.name)
       THEN \* level_sequences_root + None raises TypeError (Body row before any Group row)
            /\ Raise("NoSequenceName")
            /\ UNCHANGED <<level_sequences, success>>
       ELSE
        LET name == Val(als.name) IN
        \E template_exists, hdri_loads, has_camera_cut \in BOOLEAN :
          IF ~IsNone(hdri_name)
          THEN IF ~template_exists
               THEN /\ CreateAsset(name, None)          \* the old asset is already deleted
                    /\ ReturnFalse("TemplateMissing")
               ELSE IF ~hdri_loads
               THEN /\ CreateAsset(name, Some(HdriTemplate(level_sequence_hdri_template,
                                                     has_camera_cut)))
                    /\ ReturnFalse("HdriLoad")
               ELSE /\ CreateAsset(name, Some([HdriTemplate(level_sequence_hdri_template,
                                                      has_camera_cut)
                                          EXCEPT !.hdri = hdri_name, !.display_rate = 30]))
                    /\ pc' = "als_setup"
                    /\ UNCHANGED <<success, fatal>>
          ELSE IF camera_movement # "Static"
          THEN IF ~template_exists
               THEN /\ CreateAsset(name, None)
                    /\ ReturnFalse("TemplateMissing")
               ELSE /\ CreateAsset(name, Some([CameraTemplate(camera_movement)
                                          EXCEPT !.display_rate = 30]))
                    /\ pc' = "als_setup"
                    /\ UNCHANGED <<success, fatal>>
          ELSE /\ CreateAsset(name, Some([EmptySequence EXCEPT !.display_rate = 30]))
               /\ pc' = "als_setup"
               /\ UNCHANGED <<success, fatal>>
    /\ UNCHANGED <<env, row_index, row, ctx, sequence_bodies,
                   level_sequence_hdri_template, layers, als, exit_status, calls>>

(***************************************************************************)
(* add_level_sequence, lines 411-514: camera, camera root, playback range, *)
(* ground truth logger.  Each step maps the level sequence to              *)
(* [ls, error]: error is "" when the step completes.                       *)
(***************************************************************************)
Result(ls, error) == [ls |-> ls, error |-> error]

AddBinding(ls, binding) == [ls EXCEPT !.bindings = Append(@, binding)]
AddTrack(binding, track) == [binding EXCEPT !.tracks = Append(@, track)]

\* add_static_camera, lines 303-351.
add_static_camera(ls, pose, hfov) ==
    LET camera == AddTrack(Binding("CineCameraActor", "CineCameraActor", FALSE),
                           PoseTrack(pose.x, pose.y, pose.z, pose.roll, pose.pitch, pose.yaw))
        camera_id == Len(ls.bindings) + 1
        component == [AddTrack(Binding("CameraComponent", "CineCameraComponent", FALSE),
                               FocalLengthTrack(get_focal_length("filmback", Val(hfov))))
                         EXCEPT !.parent = Some(camera_id)]
        with_camera == AddBinding(ls, camera)
        with_component == IF IsNone(hfov) THEN with_camera
                          ELSE AddBinding(with_camera, component)
    IN [with_component EXCEPT
           !.camera_cut = Some(CameraCut(Some(-WARMUP_FRAMES), None, Some(camera_id)))]

\* change_binding_end_keyframe_times, lines 353-363.
change_binding_end_keyframe_times(binding, new_frame) ==
    [binding EXCEPT !.tracks =
        [t \in DOMAIN @ |->
            IF Len(@[t].keys) = 2 THEN [@[t] EXCEPT !.keys[2].time = new_frame]
            ELSE @[t]]]

\* The loop over the possessables of a duplicated template, lines 424-443.
RetargetTemplateBinding(binding, movement, pose, hfov, frames) ==
    LET posed == IF binding.name = "BE_CineCameraActor_Blueprint"
                 THEN AddTrack(binding, PoseTrack(pose.x, pose.y, pose.z,
                                                  pose.roll, pose.pitch, pose.yaw))
                 ELSE binding
        focused == IF binding.name = "CameraComponent"
                   THEN [posed EXCEPT !.tracks[1].defaults =
                            <<get_focal_length("filmback", Val(hfov))>>]
                   ELSE posed
    IN IF \/ movement = "Zoom" /\ binding.name = "CameraComponent"
          \/ movement = "Orbit" /\ binding.name = "BE_CameraRoot"
       THEN change_binding_end_keyframe_times(focused, frames)
       ELSE focused

\* Lines 414-449.
CameraSetup(ls, movement, pov, pose, hfov, frames) ==
    IF ~pov
    THEN IF movement = "Static"
         THEN Result(add_static_camera(ls, pose, hfov), "")
         ELSE IF IsNone(ls.camera_cut)
         THEN Result(ls, "TemplateNoCameraCut")   \* get_master_tracks()[0]: IndexError
         ELSE IF IsNone(hfov) /\ ~IsNone(BindingNamed(ls, "CameraComponent"))
         THEN Result(ls, "HfovNone")              \* radians(None): TypeError
         ELSE Result([ls EXCEPT
                         !.camera_cut = Some([Val(@) EXCEPT !.start = Some(-WARMUP_FRAMES)]),
                         !.bindings = [i \in DOMAIN @ |->
                             RetargetTemplateBinding(@[i], movement, pose, hfov, frames)]],
                     "")
    ELSE Result([ls EXCEPT !.camera_cut =
                    Some(CameraCut(Some(-WARMUP_FRAMES), None, None))], "")

\* The camera root actor's location in the level (get_actor_location).
CameraRootActorLocation == [x |-> 5, y |-> 6, z |-> 7]

\* A camera-root step that overwrites the keyframed yaw values.
CameraRootSetup_Overwrite(ls, root_binding, yaw, location, cameraroot_actor) ==
    IF IsNone(yaw) /\ IsNone(location) THEN Result(ls, "")
    ELSE IF ~cameraroot_actor THEN Result(ls, "CameraRootMissing")
    ELSE LET where == IF IsNone(location) THEN CameraRootActorLocation ELSE Val(location)
             place(defaults) == [defaults EXCEPT !.x = Some(where.x), !.y = Some(where.y),
                                                 !.z = Some(where.z)]
         IN IF IsNone(root_binding)
            THEN Result(AddBinding(ls, AddTrack(Binding("BE_CameraRoot", "Actor", FALSE),
                     [Track("Transform") EXCEPT !.defaults =
                         place([NoDefaults EXCEPT !.yaw =
                                   IF IsNone(yaw) THEN Some(0) ELSE yaw])])), "")
            ELSE IF IsNone(yaw)
            THEN Result(ls, "TransformChannelsNone")   \* None[0]: TypeError, line 482
            ELSE Result([ls EXCEPT !.bindings[Val(root_binding)].tracks[1] =
                            [@ EXCEPT !.keys = [k \in DOMAIN @ |->
                                          [@[k] EXCEPT !.value = Val(yaw)]],
                                      !.defaults = place(@)]], "")

\* Lines 451-484.  root_binding is the BE_CameraRoot binding the Orbit
\* branch found, if any.
CameraRootSetup(ls, root_binding, yaw, location, cameraroot_actor) ==
    IF IsNone(yaw) /\ IsNone(location) THEN Result(ls, "")
    ELSE IF ~cameraroot_actor THEN Result(ls, "CameraRootMissing")
    ELSE LET where == IF IsNone(location) THEN CameraRootActorLocation ELSE Val(location)
             place(defaults) == [defaults EXCEPT !.x = Some(where.x), !.y = Some(where.y),
                                                 !.z = Some(where.z)]
         IN IF IsNone(root_binding)
            THEN Result(AddBinding(ls, AddTrack(Binding("BE_CameraRoot", "Actor", FALSE),
                     [Track("Transform") EXCEPT !.defaults =
                         place([NoDefaults EXCEPT !.yaw =
                                   IF IsNone(yaw) THEN Some(0) ELSE yaw])])), "")
            ELSE IF IsNone(yaw)
            THEN Result(ls, "TransformChannelsNone")   \* None[0]: TypeError, line 482
            ELSE Result([ls EXCEPT !.bindings[Val(root_binding)].tracks[1] =
                            [@ EXCEPT !.keys = [k \in DOMAIN @ |->
                                          [@[k] EXCEPT !.value = @ + Val(yaw)]],
                                      !.defaults = place(@)]], "")

\* A playback range that starts at frame 0, without the warm-up prefix.
PlaybackRange_FromZero(ls, frames) ==
    [ls EXCEPT !.camera_cut = IF IsNone(@) THEN @ ELSE Some([Val(@) EXCEPT !.end = Some(frames)]),
               !.playback_start = Some(0),
               !.playback_end = Some(frames)]

\* Lines 486-490.
PlaybackRange(ls, frames) ==
    [ls EXCEPT !.camera_cut = IF IsNone(@) THEN @ ELSE Some([Val(@) EXCEPT !.end = Some(frames)]),
               !.playback_start = Some(-WARMUP_FRAMES),
               !.playback_end = Some(frames)]

\* A Frame channel keyed over range(0, end_frame + 1).
FrameKeys_Inclusive(end_frame) ==
    (IF WARMUP_FRAMES > 0 THEN <<Key(-WARMUP_FRAMES, -1)>> ELSE <<>>)
        \o [f \in 1..(end_frame + 1) |-> Key(f - 1, f - 1)]

\* The keys of the Frame channel, lines 501-505.
FrameKeys(end_frame) ==
    (IF WARMUP_FRAMES > 0 THEN <<Key(-WARMUP_FRAMES, -1)>> ELSE <<>>)
        \o [f \in 1..end_frame |-> Key(f - 1, f - 1)]

\* Lines 493-514.
LoggerSetup(ls, logger, name, end_frame) ==
    IF ~logger THEN ls
    ELSE AddBinding(ls,
            [Binding("BE_GroundTruthLogger", "BE_GroundTruthLogger_C", FALSE) EXCEPT
                !.tracks = << [Track("Integer") EXCEPT
                                  !.property = "Frame",
                                  !.range = Some(<<-WARMUP_FRAMES, end_frame>>),
                                  !.keys = FrameKeys(end_frame)],
                              [Track("String") EXCEPT
                                  !.property = "SequenceName",
                                  !.defaults = <<name>>] >>])

\* Python exceptions among the step errors; the others are return False.
Exceptions == {"TemplateNoCameraCut", "HfovNone", "TransformChannelsNone"}

ALS_Setup ==
    /\ pc = "als_setup"
    /\ \E cameraroot_actor \in BOOLEAN :
        LET name == Val(als.name)
            ls0 == Val(level_sequences[name])
            cam == CameraSetup(ls0, camera_movement, pov_camera, Val(camera_pose),
                               camera_hfov, sequence_frames)
            root_binding == IF ~pov_camera /\ camera_movement = "Orbit"
                            THEN BindingNamed(cam.ls, "BE_CameraRoot") ELSE None
            root == CameraRootSetup(cam.ls, root_binding, cameraroot_yaw,
                                    cameraroot_location, cameraroot_actor)
            done == LoggerSetup(PlaybackRange(root.ls, sequence_frames),
                                ground_truth_logger_actor, name, sequence_frames)
        IN IF cam.error # ""
           THEN /\ Store(name, Some(cam.ls))
                /\ Raise(cam.error)
                /\ UNCHANGED <<als, success>>
           ELSE IF root.error \in Exceptions
           THEN /\ Store(name, Some(root.ls))
                /\ Raise(root.error)
                /\ UNCHANGED <<als, success>>
           ELSE IF root.error # ""
           THEN /\ Store(name, Some(root.ls))
                /\ ReturnFalse(root.error)
                /\ UNCHANGED als
           ELSE /\ Store(name, Some(done))
                /\ pc' = "als_body"
                /\ als' = [als EXCEPT !.sequence_body_index = 1]
                /\ UNCHANGED <<success, fatal>>
    /\ UNCHANGED <<env, row_index, row, ctx, sequence_bodies,
                   level_sequence_hdri_template, layers, exit_status, calls>>

(***************************************************************************)
(* add_level_sequence, lines 519-743: one iteration of the body loop.      *)
(***************************************************************************)
\* data_root_unreal + "Core/Materials/M_SMPLX_Hidden", line 34
material_hidden_name == "M_SMPLX_Hidden"

\* f"be_actor_{sequence_body_index:02}_{layer_suffix}"
LayerName(sequence_body_index, layer_suffix) ==
    <<"be_actor", sequence_body_index, layer_suffix>>

\* add_geometry_cache, lines 128-193: the spawnable binding it returns.
add_geometry_cache(sequence_body_index, layer_suffix, start_frame, end_frame, target, sb, material, overlay) ==
    [Binding("GeometryCache",
             IF IsNone(overlay) THEN "GeometryCacheActor" ELSE "BE_ClothingOverlayActor",
             TRUE)
        EXCEPT !.body = sequence_body_index,
               !.asset = Some(target),
               !.layer = layer_suffix,
               !.material = IF IsNone(overlay) THEN material ELSE overlay,
               !.tracks = << [Track("GeometryCache") EXCEPT
                                 !.range = Some(<<start_frame, end_frame>>)],
                             PoseTrack(sb.x, sb.y, sb.z, sb.roll, sb.pitch, sb.yaw) >>]

\* add_skeletal_mesh_for_pov, lines 74-125: the hidden rig binding.
\* material_hidden is the answer of load_asset for the hidden material,
\* which is set only when it loaded (lines 94-96).
add_skeletal_mesh_for_pov(sequence_body_index, start_frame, end_frame, sb, material_hidden) ==
    [Binding("POV_Skeleton", "SkeletalMeshActor", TRUE)
        EXCEPT !.body = sequence_body_index,
               !.asset = sb.skeletal_mesh_path,
               !.hidden = TRUE,
               !.material = material_hidden,
               !.tracks = << [Track("SkeletalAnimation") EXCEPT
                                 !.range = Some(<<start_frame, end_frame>>),
                                 !.defaults = <<Val(sb.skeletal_animation_path)>>],
                             PoseTrack(sb.x, sb.y, sb.z, sb.roll, sb.pitch, sb.yaw) >>]

\* add_hair, lines 196-281: the skeletal mesh binding and the hair binding
\* attached to it; skeleton_id is the id the first one gets.
\* material is the answer of load_asset for the hidden material: when it is
\* None the error is logged and set_material(0, None) is called (lines 229-232).
add_hair(sequence_body_index, layer_suffix, start_frame, end_frame, sb, skeleton_id, material) ==
    << [Binding("AnimSequence", "SkeletalMeshActor", TRUE)
           EXCEPT !.body = sequence_body_index,
                  !.asset = sb.animation_path,
                  !.material = material,
                  !.tracks = << [Track("SkeletalAnimation") EXCEPT
                                    !.range = Some(<<start_frame, end_frame>>),
                                    !.defaults = <<Val(sb.animation_path)>>],
                                PoseTrack(sb.x, sb.y, sb.z, sb.roll, sb.pitch, sb.yaw) >>],
       [Binding("Hair", "StaticMeshActor", TRUE)
           EXCEPT !.body = sequence_body_index,
                  !.asset = sb.hair_path,
                  !.layer = layer_suffix,
                  !.tracks = << [Track("Attach") EXCEPT
                                    !.target = Some(skeleton_id),
                                    !.socket = "head",
                                    !.range = Some(<<start_frame, end_frame>>)] >>] >>

\* Lines 678-685; unreal.Rotator(roll, pitch, yaw).
Rotator(roll, pitch, yaw) == [roll |-> roll, pitch |-> pitch, yaw |-> yaw]

view_rotations ==
    (0 :> Rotator(0, 0, 90)) @@      \* front
    (1 :> Rotator(0, 0, -90)) @@     \* back
    (2 :> Rotator(0, 0, 0)) @@       \* left
    (3 :> Rotator(0, 0, 180)) @@     \* right
    (4 :> Rotator(0, 90, 90)) @@     \* up
    (5 :> Rotator(0, -90, 90))       \* down

\* A POV camera that ignores view_id.
ViewRotation_Ignored(view) == Rotator(0, 0, 0)

\* Lines 716-727: the rotation offset of the POV camera.
ViewRotation(view) ==
    IF ~IsNone(view) /\ Val(view) \in DOMAIN view_rotations
    THEN view_rotations[Val(view)]
    ELSE Rotator(0, 0, 0)

\* cos and sin of a yaw that is a multiple of 90 degrees.
Cos(deg) == CASE deg % 360 = 0 -> 1 [] deg % 360 = 180 -> -1 [] OTHER -> 0
Sin(deg) == CASE deg % 360 = 90 -> 1 [] deg % 360 = 270 -> -1 [] OTHER -> 0

\* Lines 690-700, lengths in hundredths: local_offset = unreal.Vector(0.0, 0.0, 0.20).
RotatedOffset(body_yaw) ==
    LET local_offset == [x |-> 0, y |-> 0, z |-> 20]
    IN [x |-> local_offset.x * Cos(body_yaw) - local_offset.y * Sin(body_yaw),
        y |-> local_offset.x * Sin(body_yaw) + local_offset.y * Cos(body_yaw),
        z |-> local_offset.z]

\* Lines 617-740: the POV camera binding attached to the rig and its
\* component binding; camera_id is the id the camera binding gets.
PovCamera(rig, camera_id, end_frame, body_yaw, view) ==
    LET offset == RotatedOffset(body_yaw)
        rotation == ViewRotation(view)
    IN << [Binding("POVCineCamera", "CineCameraActor", TRUE) EXCEPT
              !.tracks = << [Track("Attach") EXCEPT
                                !.target = Some(rig),
                                !.socket = "head",
                                !.range = Some(<<-WARMUP_FRAMES, end_frame>>)],
                            [Track("Transform") EXCEPT !.defaults =
                                [x |-> Some(offset.x), y |-> Some(offset.y),
                                 z |-> Some(offset.z),
                                 roll |-> Some(rotation.roll),
                                 pitch |-> Some(rotation.pitch),
                                 yaw |-> Some(rotation.yaw),
                                 sx |-> Some(1), sy |-> Some(1), sz |-> Some(1)]] >>],
          [Binding("CameraComponent", "CineCameraComponent", FALSE) EXCEPT
              !.parent = Some(camera_id),
              !.tracks = << FocalLengthTrack(get_focal_length(24, 90)) >>] >>

BodyResult(ls, lay, rig, error) == [ls |-> ls, layers |-> lay, rig |-> rig, error |-> error]

\* A POV step that goes on without a rig instead of failing the sequence.
PovCameraSetup_NoRigCheck(r, pov, end_frame, body_yaw, view) ==
    IF ~pov \/ r.error # "" \/ IsNone(r.rig) THEN r
    ELSE LET camera_id == Len(r.ls.bindings) + 1
             cams == PovCamera(Val(r.rig), camera_id, end_frame, body_yaw, view)
         IN [r EXCEPT !.ls = [@ EXCEPT !.bindings = @ \o cams,
                                       !.camera_cut = Some([Val(@) EXCEPT
                                                               !.camera = Some(camera_id)])]]

\* Lines 616-743, at the end of every iteration of the body loop.
PovCameraSetup(r, pov, end_frame, body_yaw, view) ==
    IF ~pov \/ r.error # "" THEN r
    ELSE IF IsNone(r.rig) THEN [r EXCEPT !.error = "PovRig"]
    ELSE LET camera_id == Len(r.ls.bindings) + 1
             cams == PovCamera(Val(r.rig), camera_id, end_frame, body_yaw, view)
         IN [r EXCEPT !.ls = [@ EXCEPT !.bindings = @ \o cams,
                                       !.camera_cut = Some([Val(@) EXCEPT
                                                               !.camera = Some(camera_id)])]]

\* Lines 591-606: the clothing geometry cache of a body not in overlay mode.
ClothingSetup(r, i, start_frame, end_frame, sb, clothing_loads, material_loads) ==
    IF r.error # "" \/ IsNone(sb.clothing_path) THEN r
    ELSE IF ~clothing_loads THEN [r EXCEPT !.error = "ClothingLoad"]
    ELSE IF ~IsNone(sb.texture_clothing) /\ ~material_loads
    THEN [r EXCEPT !.error = "MaterialLoad"]
    ELSE [r EXCEPT
             !.ls = AddBinding(@, add_geometry_cache(i, "clothing", start_frame, end_frame,
                                   Val(sb.clothing_path), sb, sb.texture_clothing, None)),
             !.layers = @ \cup {LayerName(i, "clothing")}]

\* Lines 543-558 and 573-588: the rig of the POV host, body index 0.
RigSetup(r, i, pov, start_frame, end_frame, sb, skeleton_loads, material_hidden) ==
    IF r.error # "" \/ ~(pov /\ i = 0) \/ IsNone(sb.skeletal_mesh_path) THEN r
    ELSE IF ~skeleton_loads THEN r     \* add_skeletal_mesh_for_pov returns None
    ELSE [r EXCEPT
             !.ls = AddBinding(@, add_skeletal_mesh_for_pov(i, start_frame, end_frame, sb,
                                                            material_hidden)),
             !.rig = Some(Len(r.ls.bindings) + 1)]

\* Lines 529-588: the body geometry cache, in overlay mode or with a
\* material instance.
BodySetup(r, i, start_frame, end_frame, sb, material_loads) ==
    IF ~IsNone(sb.texture_clothing_overlay)
    THEN IF IsNone(sb.texture_body)
         THEN [r EXCEPT !.error = "TextureBodyNone"]   \* None.startswith: AttributeError
         ELSE [r EXCEPT
                  !.ls = AddBinding(@, add_geometry_cache(i, "body", start_frame, end_frame,
                                        sb.body_path, sb, None, sb.texture_clothing_overlay)),
                  !.layers = @ \cup {LayerName(i, "body")}]
    ELSE IF ~IsNone(sb.texture_body) /\ ~material_loads
    THEN [r EXCEPT !.error = "MaterialLoad"]
    ELSE [r EXCEPT
             !.ls = AddBinding(@, add_geometry_cache(i, "body", start_frame, end_frame,
                                   sb.body_path, sb, sb.texture_body, None)),
             !.layers = @ \cup {LayerName(i, "body")}]

\* Lines 608-612.
HairSetup(r, i, start_frame, end_frame, sb, hair_loads, material_hidden) ==
    IF r.error # "" \/ IsNone(sb.hair_path) THEN r
    ELSE IF ~hair_loads THEN [r EXCEPT !.error = "HairLoad"]
    ELSE [r EXCEPT
             !.ls = [@ EXCEPT !.bindings =
                        @ \o add_hair(i, "hair", start_frame, end_frame, sb, Len(@) + 1,
                                      material_hidden)],
             !.layers = @ \cup {LayerName(i, "hair")}]

\* Clothing added after the overlay test instead of inside its else branch.
ClothingBranch_Always(r, i, start_frame, end_frame, sb, clothing_loads, material_loads) ==
    ClothingSetup(r, i, start_frame, end_frame, sb, clothing_loads, material_loads)

\* Lines 530 and 560, 591-606: clothing is added in the branch of a body
\* without texture_clothing_overlay.
ClothingBranch(r, i, start_frame, end_frame, sb, clothing_loads, material_loads) ==
    IF IsNone(sb.texture_clothing_overlay)
    THEN ClothingSetup(r, i, start_frame, end_frame, sb, clothing_loads, material_loads)
    ELSE r

\* One iteration of the loop at line 519 for the body at 0-based index i.
BodyIteration(r, i, sb, pov, frames, bodies, view, loads) ==
    LET start_frame == -sb.start_frame
        end_frame == frames
        body == BodySetup(r, i, start_frame, end_frame, sb, loads.material)
        material_hidden == IF loads.material_hidden THEN Some(material_hidden_name) ELSE None
        rig == RigSetup(body, i, pov, start_frame, end_frame, sb, loads.skeleton,
                        material_hidden)
        clothing == ClothingBranch(rig, i, start_frame, end_frame, sb,
                                   loads.clothing, loads.clothing_material)
        hair == HairSetup(clothing, i, start_frame, end_frame, sb, loads.hair,
                          material_hidden)
    IN IF ~loads.body THEN [r EXCEPT !.error = "BodyLoad"]
       ELSE PovCameraSetup(hair, pov, end_frame, bodies[1].yaw, view)

\* What the host answers to the loads of one iteration; a load the iteration
\* does not make has no answer to vary.
Loads(sb, i, pov) ==
    LET answers(asked) == IF asked THEN BOOLEAN ELSE {TRUE}
        overlay == ~IsNone(sb.texture_clothing_overlay)
    IN [body : BOOLEAN,
        material : answers(~overlay /\ ~IsNone(sb.texture_body)),
        skeleton : answers(pov /\ i = 0),
        clothing : answers(~overlay /\ ~IsNone(sb.clothing_path)),
        clothing_material : answers(~overlay /\ ~IsNone(sb.clothing_path)),
        hair : answers(~IsNone(sb.hair_path)),
        material_hidden : answers(~IsNone(sb.hair_path) \/ (pov /\ i = 0))]

ALS_Body ==
    /\ pc = "als_body"
    /\ als.sequence_body_index <= Len(sequence_bodies)
    /\ \E loads \in Loads(sequence_bodies[als.sequence_body_index],
                          als.sequence_body_index - 1, pov_camera) :
        LET name == Val(als.name)
            i == als.sequence_body_index - 1
            r == BodyIteration(BodyResult(Val(level_sequences[name]), layers,
                                          als.pov_skeletal_binding, ""),
                               i, sequence_bodies[i + 1], pov_camera, sequence_frames,
                               sequence_bodies, view_id, loads)
        IN /\ Store(name, Some(r.ls))
           /\ layers' = r.layers
           /\ IF r.error = "TextureBodyNone"
              THEN /\ Raise(r.error)
                   /\ UNCHANGED <<als, success>>
              ELSE IF r.error # ""
              THEN /\ ReturnFalse(r.error)
                   /\ UNCHANGED als
              ELSE /\ als' = [als EXCEPT !.sequence_body_index = @ + 1,
                                         !.pov_skeletal_binding = r.rig]
                   /\ UNCHANGED <<pc, success, fatal>>
    /\ UNCHANGED <<env, row_index, row, ctx, sequence_bodies,
                   level_sequence_hdri_template, exit_status, calls>>

\* add_level_sequence returning True without save_asset.
ALS_Save_NoSave ==
    /\ pc = "als_body"
    /\ als.sequence_body_index > Len(sequence_bodies)
    /\ success' = TRUE
    /\ pc' = "cleanup"
    /\ UNCHANGED <<env, row_index, row, ctx, sequence_bodies, level_sequences,
                   level_sequence_hdri_template, layers, als, exit_status, fatal, calls>>

\* Lines 747-749: save_asset and return True.
ALS_Save ==
    /\ pc = "als_body"
    /\ als.sequence_body_index > Len(sequence_bodies)
    /\ level_sequences' = [level_sequences EXCEPT
                              ![Val(als.name)] = Some([Val(@) EXCEPT !.saved = TRUE])]
    /\ success' = TRUE
    /\ pc' = "cleanup"
    /\ UNCHANGED <<env, row_index, row, ctx, sequence_bodies,
                   level_sequence_hdri_template, layers, als, exit_status, fatal, calls>>

(***************************************************************************)
(* __main__, lines 972-987: layer cleanup after the call, and the exit.    *)
(***************************************************************************)
\* The layer cleanup without the "if not success: break" that follows it.
RemoveLayers_NoBreak ==
    /\ pc = "cleanup"
    /\ layers' = {l \in layers : l[1] # "be_actor"}
    /\ als' = NoCall
    /\ Continue(row_index)
    /\ UNCHANGED <<env, row, ctx, sequence_bodies, level_sequence_hdri_template,
                   level_sequences, success, exit_status, fatal, calls>>

RemoveLayers ==
    /\ pc = "cleanup"
    /\ layers' = {l \in layers : l[1] # "be_actor"}
    /\ als' = NoCall
    /\ IF ~success
       THEN pc' = "finish" /\ UNCHANGED row_index
       ELSE Continue(row_index)
    /\ UNCHANGED <<env, row, ctx, sequence_bodies, level_sequence_hdri_template,
                   level_sequences, success, exit_status, fatal, calls>>

Exit ==
    /\ pc = "finish"
    /\ exit_status' = IF success THEN Some(0) ELSE Some(1)
    /\ pc' = "done"
    /\ UNCHANGED <<env, row_index, row, ctx, sequence_bodies,
                   level_sequence_hdri_template, host, als, success, fatal, calls>>

Next ==
    \/ FindActors
    \/ ProcessComment
    \/ ProcessGroup
    \/ ProcessBody
    \/ ALS_Create
    \/ ALS_Setup
    \/ ALS_Body
    \/ ALS_Save
    \/ RemoveLayers
    \/ Exit

Spec == Init /\ [][Next]_vars

(***************************************************************************)
(* Two generator runs against the same content root.  Each run executes    *)
(* the per-sequence steps of __main__ and add_level_sequence for its own   *)
(* list of sequence names, one body per sequence; the timelines at         *)
(* level_sequences_root and the layers are shared, and the steps of the    *)
(* two runs interleave.  runs[r] holds the position of run r: its list of  *)
(* sequence names, the one it is at, whether the timeline object it is     *)
(* building has been deleted at its path by the other run, and the names   *)
(* of the timelines it has saved.                                          *)
(***************************************************************************)
RunIds == {1, 2}

\* The lists of at most MaxJobs sequence names a run is given.
JobLists == UNION {[1..n -> SequenceNames] : n \in 1..MaxJobs}

Job(r) == runs[r].jobs[runs[r].job]

TwoRunsInit ==
    /\ csv_rows = <<>>
    /\ camera_movement = "Static"
    /\ camera_actor = TRUE
    /\ ground_truth_logger_actor = TRUE
    /\ pc = "start"
    /\ row_index = 0
    /\ row = NoRow
    /\ sequence_name = None
    /\ sequence_frames = 0
    /\ hdri_name = None
    /\ camera_hfov = None
    /\ camera_pose = None
    /\ cameraroot_yaw = None
    /\ cameraroot_location = None
    /\ pov_camera = FALSE
    /\ view_id = None
    /\ sequence_bodies = <<>>
    /\ level_sequence_hdri_template = <<"LS", "Template", "HDRI">>
    /\ level_sequences = [n \in SequenceNames |-> None]
    /\ layers = {}
    /\ als = NoCall
    /\ success = TRUE
    /\ exit_status = None
    /\ fatal = ""
    /\ calls = <<>>
    /\ runs \in [RunIds -> {[pc |-> "create", jobs |-> jobs, job |-> 1,
                             deleted |-> FALSE, saved |-> {}] : jobs \in JobLists}]
    /\ pano = <<>>
    /\ shard = <<>>

\* Lines 370-405: run r deletes the asset at the path of its sequence name if
\* one exists and creates its timeline there.  A run that is building a
\* timeline of that name holds an object that is no longer the asset.
RunCreate(r) ==
    /\ runs[r].pc = "create"
    /\ CreateAsset(Job(r), Some([EmptySequence EXCEPT !.display_rate = 30]))
    /\ runs' = [q \in RunIds |->
                  IF q = r THEN [runs[q] EXCEPT !.pc = "body", !.deleted = FALSE]
                  ELSE IF runs[q].pc \in {"body", "save"} /\ Job(q) = Job(r)
                  THEN [runs[q] EXCEPT !.deleted = TRUE]
                  ELSE runs[q]]
    /\ UNCHANGED layers

\* Lines 163-168 for body index 0: the actor is tagged with its layer and
\* bound into the timeline object of run r.
RunBody(r) ==
    /\ runs[r].pc = "body"
    /\ layers' = layers \cup {LayerName(0, "body")}
    /\ IF runs[r].deleted
       THEN UNCHANGED level_sequences
       ELSE Store(Job(r), Some(AddBinding(Val(level_sequences[Job(r)]),
                [Binding("GeometryCache", "GeometryCacheActor", TRUE) EXCEPT
                    !.body = 0, !.layer = "body"])))
    /\ runs' = [runs EXCEPT ![r].pc = "save"]

\* Line 747: save_asset of the timeline object of run r.
RunSave(r) ==
    /\ runs[r].pc = "save"
    /\ IF runs[r].deleted
       THEN UNCHANGED level_sequences
       ELSE Store(Job(r), Some([Val(level_sequences[Job(r)]) EXCEPT !.saved = TRUE]))
    /\ runs' = [runs EXCEPT ![r].pc = "cleanup", ![r].saved = @ \cup {Job(r)}]
    /\ UNCHANGED layers

\* A cleanup that deletes no layer.
RunCleanup_KeepLayers(r) ==
    /\ runs[r].pc = "cleanup"
    /\ runs' = [runs EXCEPT ![r].pc = IF runs[r].job < Len(runs[r].jobs)
                                      THEN "create" ELSE "done",
                            ![r].job = IF runs[r].job < Len(runs[r].jobs)
                                       THEN @ + 1 ELSE @]
    /\ UNCHANGED <<layers, level_sequences>>

\* Lines 972-977: every layer whose name starts with be_actor is deleted,
\* then the row loop of run r goes on.
RunCleanup(r) ==
    /\ runs[r].pc = "cleanup"
    /\ layers' = {l \in layers : l[1] # "be_actor"}
    /\ runs' = [runs EXCEPT ![r].pc = IF runs[r].job < Len(runs[r].jobs)
                                      THEN "create" ELSE "done",
                            ![r].job = IF runs[r].job < Len(runs[r].jobs)
                                       THEN @ + 1 ELSE @]
    /\ UNCHANGED level_sequences

TwoRunsStep(r) ==
    /\ \/ RunCreate(r)
       \/ RunBody(r)
       \/ RunSave(r)
       \/ RunCleanup(r)
    /\ UNCHANGED <<csv_rows, camera_movement, camera_actor, ground_truth_logger_actor,
                   pc, row_index, row, ctx, sequence_bodies,
                   level_sequence_hdri_template, als, success, exit_status, fatal,
                   calls, pano, shard>>

TwoRunsNext == \E r \in RunIds : TwoRunsStep(r)

TwoRuns == TwoRunsInit /\ [][TwoRunsNext]_vars

(***************************************************************************)
(* be_add_pov_six_views.py: the panoramic expander.  pano holds the rows   *)
(* read from the input CSV and the locals of process_csv.  A row has the   *)
(* columns Type, Index, Body, the pose and Comment; Index is the decimal   *)
(* text of the CSV cell.  A sequence name the expander builds is the tuple *)
(* of the pieces it concatenates.                                          *)
(***************************************************************************)
DecimalLiterals ==
    << "0", "1", "2", "3", "4", "5", "6", "7", "8", "9",
       "10", "11", "12", "13", "14", "15", "16", "17", "18", "19",
       "20", "21", "22", "23", "24", "25", "26", "27", "28", "29",
       "30", "31", "32", "33", "34", "35", "36", "37", "38", "39" >>

\* str(n)
str(n) == DecimalLiterals[n + 1]

PANORAMIC_VIEWS ==
    << [suffix |-> "_front", view_id |-> 0, description |-> "front_view"],
       [suffix |-> "_back", view_id |-> 1, description |-> "back_view"],
       [suffix |-> "_left", view_id |-> 2, description |-> "left_view"],
       [suffix |-> "_right", view_id |-> 3, description |-> "right_view"],
       [suffix |-> "_up", view_id |-> 4, description |-> "up_view"],
       [suffix |-> "_down", view_id |-> 5, description |-> "down_view"] >>

\* The rows an input CSV is made of, without their Index.
PanoRowKinds ==
    { [Type |-> "Comment", Body |-> <<>>, Pose |-> ZeroPose,
       Comment |-> << <<"note">> >>],
      [Type |-> "Group", Body |-> <<>>, Pose |-> ZeroPose,
       Comment |-> << KV("sequence_name", "seq_0"), KV("frames", "2"),
                      KV("camera_hfov", "60") >>],
      [Type |-> "Group", Body |-> <<>>, Pose |-> ZeroPose,
       Comment |-> << KV("sequence_name", "seq_1"), KV("frames", "2") >>],
      [Type |-> "Body", Body |-> <<"rp", "aaron", "posed", "002", "0000">>,
       Pose |-> [ZeroPose EXCEPT !.yaw = 90],
       Comment |-> << KV("texture_body", "skin_f01") >>],
      [Type |-> "Body", Body |-> <<"rp", "aaron", "posed", "002", "0000">>,
       Pose |-> [ZeroPose EXCEPT !.yaw = 180],
       Comment |-> << KV("texture_body", "skin_f01"), KV("hair", "hair_01") >>] }

WithIndex(r, idx) ==
    [Type |-> r.Type, Index |-> str(idx), Body |-> r.Body, Pose |-> r.Pose,
     Comment |-> r.Comment]

\* The input CSV files of at most MaxPanoRows rows, indexed 0..n-1.
PanoInputs ==
    UNION {{[i \in 1..n |-> WithIndex(kinds[i], i - 1)] : kinds \in [1..n -> PanoRowKinds]} :
           n \in 1..MaxPanoRows}

\* part.startswith('sequence_name=')
StartsWithKey(part, k) == Len(part) >= 2 /\ part[1] = k

\* Lines 162-174: the parts of the Group comment, the sequence name suffixed
\* and the camera field of view set to 90.
NewPart(part, view_config) ==
    IF StartsWithKey(part, "sequence_name")
    THEN KV("sequence_name", <<part[2], "_pov", view_config.suffix>>)
    ELSE IF StartsWithKey(part, "camera_hfov")
    THEN KV("camera_hfov", "90")
    ELSE part

ViewParts(view_config) ==
    << KV("pov_camera", "true"), KV("view_id", str(view_config.view_id)),
       KV("view", view_config.description) >>

\* Lines 156-189.
expand_sequence_to_panoramic(group_row, body_row, view_config) ==
    LET original_comment == group_row.Comment
        new_comment ==
            IF \E i \in DOMAIN original_comment :
                    StartsWithKey(original_comment[i], "sequence_name")
            THEN [i \in DOMAIN original_comment |->
                     NewPart(original_comment[i], view_config)] \o ViewParts(view_config)
            ELSE original_comment \o ViewParts(view_config)
    IN  << [group_row EXCEPT !.Comment = new_comment], body_row >>

\* Lines 243-246 for one (Group, Body) pair: its rows in the six views.
RECURSIVE ExpandViews(_, _, _)
ExpandViews(group_row, body_row, v) ==
    IF v > Len(PANORAMIC_VIEWS) THEN <<>>
    ELSE expand_sequence_to_panoramic(group_row, body_row, PANORAMIC_VIEWS[v])
            \o ExpandViews(group_row, body_row, v + 1)

generator ==
    <<csv_rows, camera_movement, camera_actor, ground_truth_logger_actor,
      pc, row_index, row, ctx, sequence_bodies, level_sequence_hdri_template,
      level_sequences, layers, als, success, exit_status, fatal, calls, runs, shard>>

PanoInit ==
    /\ csv_rows = <<>>
    /\ camera_movement = "Static"
    /\ camera_actor = TRUE
    /\ ground_truth_logger_actor = TRUE
    /\ pc = "start"
    /\ row_index = 0
    /\ row = NoRow
    /\ sequence_name = None
    /\ sequence_frames = 0
    /\ hdri_name = None
    /\ camera_hfov = None
    /\ camera_pose = None
    /\ cameraroot_yaw = None
    /\ cameraroot_location = None
    /\ pov_camera = FALSE
    /\ view_id = None
    /\ sequence_bodies = <<>>
    /\ level_sequence_hdri_template = <<"LS", "Template", "HDRI">>
    /\ level_sequences = [n \in SequenceNames |-> None]
    /\ layers = {}
    /\ als = NoCall
    /\ success = TRUE
    /\ exit_status = None
    /\ fatal = ""
    /\ calls = <<>>
    /\ runs = <<>>
    /\ shard = <<>>
    /\ pano \in {[pc |-> "scan", rows |-> rows, i |-> 1, comment_row |-> None,
                   sequence_pairs |-> <<>>, seq_idx |-> 1, expanded_rows |-> <<>>] :
                  rows \in PanoInputs}

\* Lines 215-223 for one row: the first Comment row is kept, and a Group row
\* is paired with the row after it when that row is a Body row.
PanoScan ==
    /\ pano.pc = "scan"
    /\ pano.i <= Len(pano.rows)
    /\ LET i == pano.i
           r == pano.rows[i]
       IN  pano' = [pano EXCEPT
               !.i = i + 1,
               !.comment_row = IF r.Type = "Comment" /\ IsNone(@) THEN Some(r) ELSE @,
               !.sequence_pairs =
                   IF /\ r.Type = "Group"
                      /\ i + 1 <= Len(pano.rows)
                      /\ pano.rows[i + 1].Type = "Body"
                   THEN Append(@, <<r, pano.rows[i + 1]>>)
                   ELSE @]
    /\ UNCHANGED generator

\* Lines 228-236: the global Comment row goes first.
PanoHeader ==
    /\ pano.pc = "scan"
    /\ pano.i > Len(pano.rows)
    /\ pano' = [pano EXCEPT
            !.pc = "expand",
            !.expanded_rows =
                IF IsNone(pano.comment_row) THEN <<>>
                ELSE << [Val(pano.comment_row) EXCEPT
                           !.Comment = Append(@, KV("panoramic_views", "6"))] >>]
    /\ UNCHANGED generator

\* Lines 239-246 for one pair.
PanoExpand ==
    /\ pano.pc = "expand"
    /\ pano.seq_idx <= Len(pano.sequence_pairs)
    /\ LET pair == pano.sequence_pairs[pano.seq_idx]
       IN  pano' = [pano EXCEPT
               !.seq_idx = @ + 1,
               !.expanded_rows = @ \o ExpandViews(pair[1], pair[2], 1)]
    /\ UNCHANGED generator

\* An expander that writes the rows with the Index they had in the input.
PanoWrite_KeepIndex ==
    /\ pano.pc = "expand"
    /\ pano.seq_idx > Len(pano.sequence_pairs)
    /\ pano' = [pano EXCEPT !.pc = "written"]
    /\ UNCHANGED generator

\* Lines 248-256: Index is renumbered and the rows are written.
PanoWrite ==
    /\ pano.pc = "expand"
    /\ pano.seq_idx > Len(pano.sequence_pairs)
    /\ pano' = [pano EXCEPT
            !.pc = "written",
            !.expanded_rows = [idx \in DOMAIN pano.expanded_rows |->
                                  [pano.expanded_rows[idx] EXCEPT !.Index = str(idx - 1)]]]
    /\ UNCHANGED generator

PanoNext == PanoScan \/ PanoHeader \/ PanoExpand \/ PanoWrite

Expander == PanoInit /\ [][PanoNext]_vars

(***************************************************************************)
(* Batch sharding of the importers (import_abc_smplx.py, import_fbx_smplx_ *)
(* skeleton.py), one import per batch_index in range(num_batches) as the   *)
(* batch launcher starts them.  The sorted import list of n files is       *)
(* <<1, ..., n>>.  shard holds the importer, n, num_batches, the batch to  *)
(* run next and, for every batch run, start_index, end_index and the slice *)
(* it selected.                                                            *)
(***************************************************************************)
ImportList(n) == [i \in 1..n |-> i]

\* A section length rounded down.
SectionLength_Floor(n, num_batches) == n \div num_batches

\* math.ceil(len(paths) / num_batches)
SectionLength(n, num_batches) == (n + num_batches - 1) \div num_batches

Min(a, b) == IF a < b THEN a ELSE b

\* paths[start_index : end_index] for indices >= 0: both bounds are clamped
\* to len(paths), and the slice is empty when start is not below end.
Slice(paths, start_index, end_index) ==
    SubSeq(paths, Min(start_index, Len(paths)) + 1, Min(end_index, Len(paths)))

\* start_index, end_index and the selected slice of one batch.
Batch(n, current_batch, num_batches) ==
    LET section_length == SectionLength(n, num_batches)
        start_index == current_batch * section_length
        end_index == Min(start_index + section_length, n)
    IN  [start_index |-> start_index, end_index |-> end_index,
         paths |-> Slice(ImportList(n), start_index, end_index)]

Importers == {"abc", "fbx"}

ShardInit ==
    /\ csv_rows = <<>>
    /\ camera_movement = "Static"
    /\ camera_actor = TRUE
    /\ ground_truth_logger_actor = TRUE
    /\ pc = "start"
    /\ row_index = 0
    /\ row = NoRow
    /\ sequence_name = None
    /\ sequence_frames = 0
    /\ hdri_name = None
    /\ camera_hfov = None
    /\ camera_pose = None
    /\ cameraroot_yaw = None
    /\ cameraroot_location = None
    /\ pov_camera = FALSE
    /\ view_id = None
    /\ sequence_bodies = <<>>
    /\ level_sequence_hdri_template = <<"LS", "Template", "HDRI">>
    /\ level_sequences = [n \in SequenceNames |-> None]
    /\ layers = {}
    /\ als = NoCall
    /\ success = TRUE
    /\ exit_status = None
    /\ fatal = ""
    /\ calls = <<>>
    /\ runs = <<>>
    /\ pano = <<>>
    /\ shard \in {[importer |-> importer, n |-> n, num_batches |-> num_batches,
                    current_batch |-> 0, batches |-> <<>>] :
                   importer \in Importers, n \in 0..MaxFiles, num_batches \in 1..MaxBatches}

tools ==
    <<csv_rows, camera_movement, camera_actor, ground_truth_logger_actor,
      pc, row_index, row, ctx, sequence_bodies, level_sequence_hdri_template,
      level_sequences, layers, als, success, exit_status, fatal, calls, runs, pano>>

\* import_abc_smplx.py lines 26-36 for the next batch.
ImportAbc ==
    /\ shard.importer = "abc"
    /\ shard.current_batch < shard.num_batches
    /\ shard' = [shard EXCEPT
            !.current_batch = @ + 1,
            !.batches = Append(@, Batch(shard.n, shard.current_batch, shard.num_batches))]
    /\ UNCHANGED tools

\* import_fbx_smplx_skeleton.py lines 64-75 for the next batch: with an
\* empty import list the importer returns before the slice is taken.
ImportFbx ==
    /\ shard.importer = "fbx"
    /\ shard.current_batch < shard.num_batches
    /\ shard' = [shard EXCEPT
            !.current_batch = @ + 1,
            !.batches = Append(@,
                IF shard.n = 0
                THEN [start_index |-> 0, end_index |-> 0, paths |-> <<>>]
                ELSE Batch(shard.n, shard.current_batch, shard.num_batches))]
    /\ UNCHANGED tools

ShardNext == ImportAbc \/ ImportFbx

Sharding == ShardInit /\ [][ShardNext]_vars

(***************************************************************************)
(* Properties of the generator.                                            *)
(***************************************************************************)
\* The run has ended: sys.exit was called, or an exception ended the script.
Terminated == pc \in {"done", "crashed"}

\* add_level_sequence is building, or has just returned from, the timeline
\* of the pending sequence.
InCall == pc \in {"als_body", "cleanup"} /\ ~IsNone(als.name)

\* The timeline of the call in progress, None when the call deleted it.
CurrentTimeline == level_sequences[Val(als.name)]

BindingsWhere(ls, P(_)) == {i \in DOMAIN ls.bindings : P(ls.bindings[i])}

GroupRows == {i \in DOMAIN csv_rows : csv_rows[i].Type = "Group"}
BodyRowsOf(g) == {i \in DOMAIN csv_rows : csv_rows[i].Type = "Body" /\ GroupOf(i) = g}

\* Each Group row is followed by at least one Body row, and no Body row
\* comes before the first Group row.
ValidCsv ==
    /\ GroupRows # {}
    /\ \A g \in GroupRows : g < Len(csv_rows) /\ csv_rows[g + 1].Type = "Body"
    /\ \A i \in DOMAIN csv_rows : csv_rows[i].Type = "Body" => GroupOf(i) # 0

(***************************************************************************)
(* C1: for every valid CSV whose rows all parse and whose assets all       *)
(* resolve (the run ends with status 0), add_level_sequence is called      *)
(* exactly once per Group row, and the body list of a Group's call has as  *)
(* many entries as there are Body rows between that Group row and the next *)
(* Group row or the end of the file.                                       *)
(***************************************************************************)
C1_OneCallPerGroup ==
    (pc = "done" /\ exit_status = Some(0) /\ ValidCsv) =>
        /\ Len(calls) = Cardinality(GroupRows)
        /\ \A g \in GroupRows :
              \E k \in DOMAIN calls :
                  /\ calls[k].group = g
                  /\ calls[k].bodies = Cardinality(BodyRowsOf(g))

(***************************************************************************)
(* C2: when add_level_sequence returns success, the playback range of the  *)
(* timeline it built is exactly [-WARMUP_FRAMES, frame_count], and every   *)
(* saved timeline's playback range starts at -WARMUP_FRAMES.               *)
(***************************************************************************)
C2_PlaybackRange ==
    /\ (pc = "cleanup" /\ success) =>
          /\ ~IsNone(CurrentTimeline)
          /\ Val(CurrentTimeline).saved
          /\ Val(CurrentTimeline).playback_start = Some(-WARMUP_FRAMES)
          /\ Val(CurrentTimeline).playback_end = Some(sequence_frames)
    /\ \A n \in SequenceNames :
          (~IsNone(level_sequences[n]) /\ Val(level_sequences[n]).saved) =>
              /\ Val(level_sequences[n]).playback_start = Some(-WARMUP_FRAMES)
              /\ ~IsNone(Val(level_sequences[n]).playback_end)

\* C2's case: a successful return for an Orbit run whose Group gives an HDRI
\* and a camera-root yaw, with the ground truth logger in the map.
C2_Witness ==
    /\ pc = "cleanup" /\ success
    /\ camera_movement = "Orbit"
    /\ ~IsNone(hdri_name)
    /\ ~IsNone(cameraroot_yaw)
    /\ ground_truth_logger_actor
    /\ sequence_frames = 2

(***************************************************************************)
(* C3: the Frame channel of a bound ground truth logger holds exactly      *)
(* frame_count + 1 keys: one at time -WARMUP_FRAMES with value -1 and, for *)
(* each f in 0..frame_count-1, one at time f with value f; no key at time  *)
(* frame_count or at any other negative time.                              *)
(***************************************************************************)
FrameChannelAsClaimed(keys, frame_count) ==
    /\ Len(keys) = frame_count + 1
    /\ {keys[k] : k \in DOMAIN keys} =
          {Key(-WARMUP_FRAMES, -1)} \cup {Key(f, f) : f \in 0..(frame_count - 1)}

IsLogger(b) == b.name = "BE_GroundTruthLogger"

C3_FrameChannel ==
    /\ \A n \in SequenceNames :
          ~IsNone(level_sequences[n]) =>
              \A i \in BindingsWhere(Val(level_sequences[n]), IsLogger) :
                  LET frame == Val(level_sequences[n]).bindings[i].tracks[1]
                  IN /\ frame.property = "Frame"
                     /\ FrameChannelAsClaimed(frame.keys, Val(frame.range)[2])
    /\ (InCall /\ ~IsNone(CurrentTimeline)) =>
          \A i \in BindingsWhere(Val(CurrentTimeline), IsLogger) :
              Len(Val(CurrentTimeline).bindings[i].tracks[1].keys) = sequence_frames + 1
    /\ (pc = "cleanup" /\ success /\ ground_truth_logger_actor) =>
          Cardinality(BindingsWhere(Val(CurrentTimeline), IsLogger)) = 1

\* C3's case: a 100-frame sequence built with the logger bound.
C3_Witness ==
    /\ pc = "cleanup" /\ success
    /\ ground_truth_logger_actor
    /\ sequence_frames = 100
    /\ BindingsWhere(Val(CurrentTimeline), IsLogger) # {}

(***************************************************************************)
(* C4: a Group row whose Comment lacks frames or sequence_name aborts the  *)
(* run at that row: the row loop never moves past it, and every call of    *)
(* add_level_sequence the run made belongs to an earlier Group row.        *)
(***************************************************************************)
GroupRowLacksRequiredKey ==
    /\ row.Type = "Group"
    /\ ~Malformed(row.Comment)
    /\ ~({"sequence_name", "frames"} \subseteq ConfigKeys(row.Comment))

C4_GroupMissingKeyAborts ==
    GroupRowLacksRequiredKey =>
        /\ pc = "crashed"
        /\ csv_rows[row_index].Type = "Group"
        /\ \A k \in DOMAIN calls : calls[k].row < row_index /\ calls[k].group < row_index

\* C4's case: the run stopped at such a Group row with a Body row after it.
C4_Witness ==
    /\ GroupRowLacksRequiredKey
    /\ pc = "crashed"
    /\ row_index < Len(csv_rows)
    /\ csv_rows[row_index + 1].Type = "Body"

(***************************************************************************)
(* C5: a clothing geometry-cache binding (layer role clothing) is in the   *)
(* timeline only for a body whose row has texture_clothing and has no      *)
(* texture_clothing_overlay.                                               *)
(***************************************************************************)
IsClothing(b) == b.layer = "clothing"

C5_ClothingOnlyWithoutOverlay ==
    (InCall /\ ~IsNone(CurrentTimeline)) =>
        \A i \in BindingsWhere(Val(CurrentTimeline), IsClothing) :
            LET b == Val(CurrentTimeline).bindings[i]
            IN /\ b.body + 1 \in DOMAIN sequence_bodies
               /\ ~IsNone(sequence_bodies[b.body + 1].texture_clothing)
               /\ IsNone(sequence_bodies[b.body + 1].texture_clothing_overlay)

\* C5's case: a saved two-body sequence, one body with textured clothing
\* and its clothing binding, the other in overlay mode with texture_clothing
\* given and no clothing binding.
C5_Witness ==
    /\ pc = "cleanup" /\ success
    /\ Len(sequence_bodies) = 2
    /\ \E i, j \in 1..2 :
          /\ ~IsNone(sequence_bodies[i].texture_clothing)
          /\ IsNone(sequence_bodies[i].texture_clothing_overlay)
          /\ \E k \in BindingsWhere(Val(CurrentTimeline), IsClothing) :
                Val(CurrentTimeline).bindings[k].body = i - 1
          /\ ~IsNone(sequence_bodies[j].texture_clothing)
          /\ ~IsNone(sequence_bodies[j].texture_clothing_overlay)
          /\ \A k \in BindingsWhere(Val(CurrentTimeline), IsClothing) :
                Val(CurrentTimeline).bindings[k].body # j - 1

(***************************************************************************)
(* C6: in a POV sequence a view_id outside 0..5, or no view_id, gives the  *)
(* POV camera the all-zero rotation offset, which is the rotation the      *)
(* table assigns to view_id 0 (front), and the sequence does not fail for  *)
(* it.                                                                     *)
(***************************************************************************)
IsPovCamera(b) == b.name = "POVCineCamera"

\* The rotation defaults of a POV camera binding's transform track.
PovRotation(b) ==
    Rotator(Val(b.tracks[2].defaults.roll), Val(b.tracks[2].defaults.pitch),
            Val(b.tracks[2].defaults.yaw))

C6_FallbackIsFrontView ==
    (/\ pc = "cleanup" /\ success
     /\ pov_camera
     /\ (IsNone(view_id) \/ Val(view_id) \notin 0..5)) =>
        /\ BindingsWhere(Val(CurrentTimeline), IsPovCamera) # {}
        /\ \A i \in BindingsWhere(Val(CurrentTimeline), IsPovCamera) :
              /\ PovRotation(Val(CurrentTimeline).bindings[i]) = Rotator(0, 0, 0)
              /\ PovRotation(Val(CurrentTimeline).bindings[i]) = view_rotations[0]

(***************************************************************************)
(* C7, Scenario A: a CSV of one Comment row, one Group row                 *)
(* (sequence_name=seq_0;frames=100;camera_hfov=60) and one Body row        *)
(* rp_aaron_posed_002_0000 with an empty Comment field runs to success and *)
(* produces one sequence seq_0 of 100 frames with a static camera that has *)
(* a focal-length track, one body binding, and no clothing, hair or POV    *)
(* rig binding.                                                            *)
(***************************************************************************)
ScenarioA ==
    /\ Len(csv_rows) = 3
    /\ csv_rows[1].Type = "Comment"
    /\ csv_rows[2].Type = "Group"
    /\ csv_rows[3].Type = "Body"
    /\ WellIndexed(csv_rows)
    /\ camera_movement = "Static"
    /\ sequence_name = Some("seq_0")
    /\ sequence_frames = 100
    /\ camera_hfov = Some(60)
    /\ ~pov_camera
    /\ IsNone(hdri_name) /\ IsNone(cameraroot_yaw) /\ IsNone(cameraroot_location)
    /\ row.Type = "Body"
    /\ row.Body = <<"rp", "aaron", "posed", "002", "0000">>
    /\ row.Comment = << <<"">> >>

IsBody(b) == b.layer = "body"
IsHair(b) == b.layer = "hair"
IsRig(b) == b.hidden

HasFocalLength(b, camera, hfov) ==
    /\ b.parent = Some(camera)
    /\ \E t \in DOMAIN b.tracks :
          /\ b.tracks[t].type = "Float"
          /\ b.tracks[t].property = "CurrentFocalLength"
          /\ b.tracks[t].defaults = <<get_focal_length("filmback", hfov)>>

ScenarioATimeline(ls) ==
    /\ ls.saved
    /\ ls.playback_end = Some(100)
    /\ ~IsNone(ls.camera_cut)
    /\ ~IsNone(ls.camera_cut[1].camera)
    /\ LET camera == Val(ls.camera_cut[1].camera)
       IN /\ ls.bindings[camera].class = "CineCameraActor"
          /\ \E k \in DOMAIN ls.bindings : HasFocalLength(ls.bindings[k], camera, 60)
    /\ Cardinality(BindingsWhere(ls, IsBody)) = 1
    /\ BindingsWhere(ls, IsClothing) = {}
    /\ BindingsWhere(ls, IsHair) = {}
    /\ BindingsWhere(ls, IsRig) = {}

C7_ScenarioA ==
    (ScenarioA /\ Terminated) =>
        /\ exit_status = Some(0)
        /\ Len(calls) = 1
        /\ ~IsNone(level_sequences["seq_0"])
        /\ ScenarioATimeline(Val(level_sequences["seq_0"]))
        /\ IsNone(level_sequences["seq_1"])

(***************************************************************************)
(* C8, Scenario B: with the Group config pov_camera=true;view_id=3 and one *)
(* Body row with texture_body=skin_f01, a successful call leaves one POV   *)
(* sequence in which body index 0 has a geometry-cache binding and a       *)
(* hidden skeletal-rig binding, the camera-cut section refers to a camera  *)
(* whose attach section targets the rig at socket head over                *)
(* [-WARMUP_FRAMES, frame_count], and the camera's rotation offset is the  *)
(* table entry of view_id 3.                                               *)
(***************************************************************************)
ScenarioB ==
    /\ Cardinality(GroupRows) = 1
    /\ Cardinality({i \in DOMAIN csv_rows : csv_rows[i].Type = "Body"}) = 1
    /\ camera_movement = "Static"
    /\ sequence_name = Some("seq_0")
    /\ sequence_frames = 100
    /\ camera_hfov = Some(60)
    /\ pov_camera
    /\ view_id = Some(3)
    /\ row.Type = "Body"
    /\ row.Comment = << KV("texture_body", "skin_f01") >>

AttachedTo(camera, rig, frame_count) ==
    /\ camera.tracks[1].type = "Attach"
    /\ camera.tracks[1].target = Some(rig)
    /\ camera.tracks[1].socket = "head"
    /\ camera.tracks[1].range = Some(<<-WARMUP_FRAMES, frame_count>>)

ScenarioBTimeline(ls) ==
    /\ ls.saved
    /\ \E g \in BindingsWhere(ls, IsBody) :
          /\ BindingsWhere(ls, IsBody) = {g}
          /\ ls.bindings[g].body = 0
          /\ ls.bindings[g].class = "GeometryCacheActor"
          /\ ls.bindings[g].tracks[1].type = "GeometryCache"
    /\ \E r \in BindingsWhere(ls, IsRig) :
          /\ BindingsWhere(ls, IsRig) = {r}
          /\ ls.bindings[r].body = 0
          /\ ls.bindings[r].class = "SkeletalMeshActor"
          /\ ~IsNone(ls.camera_cut)
          /\ ~IsNone(ls.camera_cut[1].camera)
          /\ LET camera == ls.bindings[Val(ls.camera_cut[1].camera)]
             IN /\ camera.class = "CineCameraActor"
                /\ AttachedTo(camera, r, 100)
                /\ PovRotation(camera) = view_rotations[3]
                /\ PovRotation(camera) = Rotator(0, 0, 180)
    /\ Cardinality(BindingsWhere(ls, IsPovCamera)) = 1

C8_ScenarioB ==
    (ScenarioB /\ pc = "cleanup" /\ success) =>
        /\ Len(calls) = 1
        /\ ~IsNone(level_sequences["seq_0"])
        /\ ScenarioBTimeline(Val(level_sequences["seq_0"]))
        /\ IsNone(level_sequences["seq_1"])

\* C8's case: Scenario B's run has ended with status 0 and its sequence saved.
C8_Witness ==
    /\ ScenarioB
    /\ pc = "done"
    /\ exit_status = Some(0)
    /\ Len(calls) = 1
    /\ ~IsNone(level_sequences["seq_0"])
    /\ Val(level_sequences["seq_0"]).saved
    /\ BindingsWhere(Val(level_sequences["seq_0"]), IsPovCamera) # {}

(***************************************************************************)
(* C9: the generator terminates with exit status 0 if and only if no fatal *)
(* condition occurred, and with exit status 1 on any fatal condition.      *)
(***************************************************************************)
C9_ExitStatus ==
    Terminated =>
        /\ exit_status = Some(0) <=> fatal = ""
        /\ fatal # "" => exit_status = Some(1)

ActorLayers == {l \in layers : l[1] = "be_actor"}

IsTagged(b) == b.layer # ""

C11_LayersTransient ==
    /\ (pc = "als_body" /\ ~IsNone(CurrentTimeline)) =>
          \A i \in BindingsWhere(Val(CurrentTimeline), IsTagged) :
              LayerName(Val(CurrentTimeline).bindings[i].body,
                        Val(CurrentTimeline).bindings[i].layer) \in layers
    /\ pc \in {"start", "rows", "als_create", "finish", "done", "crashed"} =>
          ActorLayers = {}

(***************************************************************************)
(* C12: sequences are processed one at a time in file order.  When a call  *)
(* of add_level_sequence starts, no other call is in progress, the         *)
(* timeline of every earlier call is built and saved, and the call is for  *)
(* a later row and the same or a later Group row than every earlier call;  *)
(* the host's timelines change only during a call, and only the timeline   *)
(* of that call's sequence.                                                *)
(***************************************************************************)
IsSavedTimeline(name) ==
    /\ ~IsNone(name)
    /\ ~IsNone(level_sequences[Val(name)])
    /\ Val(level_sequences[Val(name)]).saved

C12_OneAtATimeInFileOrder ==
    [][/\ Len(calls') > Len(calls) =>
             /\ Len(calls') = Len(calls) + 1
             /\ pc = "rows" /\ als = NoCall /\ success
             /\ \A k \in DOMAIN calls :
                   /\ calls[k].row < calls'[Len(calls')].row
                   /\ calls[k].group <= calls'[Len(calls')].group
                   /\ IsSavedTimeline(calls[k].name)
       /\ level_sequences' # level_sequences =>
             /\ pc \in {"als_create", "als_setup", "als_body"}
             /\ calls # <<>>
             /\ als.name = calls[Len(calls)].name
             /\ \A n \in SequenceNames \ {Val(als.name)} :
                   level_sequences'[n] = level_sequences[n]]_vars

\* C12's case: the second Group's call is in progress after the first
\* Group's timeline was saved.
C12_Witness ==
    /\ Len(calls) = 2
    /\ calls[1].group < calls[2].group
    /\ calls[1].name # calls[2].name
    /\ pc = "als_body"
    /\ IsSavedTimeline(calls[1].name)

\* The bindings of a timeline whose material slot was set from an asset that
\* did not load.
IsHairSkeleton(b) == b.name = "AnimSequence"
HasUnresolvedMaterial(b) == IsHairSkeleton(b) /\ IsNone(b.material)

\* C13: the timeline of a sequence is saved only if every step of that sequence
\* succeeded: when add_level_sequence has returned, a saved timeline has every
\* body, clothing, hair, material, skeletal-mesh and animation asset loaded, and
\* a sequence with an asset that did not load is left unsaved with the bindings
\* created so far (nothing is rolled back).
C13_SavedOnlyIfEveryAssetLoaded ==
    (pc = "cleanup" /\ ~IsNone(als.name)) =>
        /\ success <=> (~IsNone(CurrentTimeline) /\ Val(CurrentTimeline).saved)
        /\ success => BindingsWhere(Val(CurrentTimeline), HasUnresolvedMaterial) = {}
        /\ ~success => fatal # ""

\* The forward offset of the claim, in hundredths, rotated about the vertical
\* axis by yaw.
ForwardOffset == [x |-> 20, y |-> 0]
RotatedForward(yaw) ==
    [x |-> ForwardOffset.x * Cos(yaw) - ForwardOffset.y * Sin(yaw),
     y |-> ForwardOffset.x * Sin(yaw) + ForwardOffset.y * Cos(yaw)]

PovTranslation(b) == [x |-> Val(b.tracks[2].defaults.x), y |-> Val(b.tracks[2].defaults.y)]

\* C14: the translation of a POV camera relative to its attach parent is the
\* forward offset (0.2, 0) rotated about the vertical axis by the yaw of the
\* host body (the first body of the sequence): (0, 0.2) at 90 degrees,
\* (-0.2, 0) at 180 degrees.
C14_PovOffsetRotatedByYaw ==
    (pc = "cleanup" /\ success /\ ~IsNone(als.name) /\ sequence_bodies # <<>>) =>
        \A i \in BindingsWhere(Val(CurrentTimeline), IsPovCamera) :
            PovTranslation(Val(CurrentTimeline).bindings[i]) =
                RotatedForward(sequence_bodies[1].yaw)

\* The calls of get_focal_length recorded in the timeline ls, as
\* [sensor_width, hfov]: the focal length defaults of the POV camera components
\* (sensor width 24) and of the other camera components (the sensor width of
\* the camera actor's filmback, any of SensorWidths).
SensorWidths == {24, 36}
IsFocalLengthTrack(t) == t.type = "Float" /\ t.property = "CurrentFocalLength"
HasFocalLengthDefault(b) ==
    /\ b.tracks # <<>>
    /\ IsFocalLengthTrack(b.tracks[1])
    /\ b.tracks[1].defaults # <<>>
IsPovComponent(ls, b) == ~IsNone(b.parent) /\ IsPovCamera(ls.bindings[Val(b.parent)])
FocalLengthCalls(ls) ==
    LET called == {i \in DOMAIN ls.bindings : HasFocalLengthDefault(ls.bindings[i])}
    IN UNION { IF IsPovComponent(ls, ls.bindings[i])
               THEN {ls.bindings[i].tracks[1].defaults[1]}
               ELSE {[sensor_width |-> w, hfov |-> ls.bindings[i].tracks[1].defaults[1].hfov] :
                        w \in SensorWidths} : i \in called }

\* C15: get_focal_length returns sensor_width / (2 * tan(hfov / 2)): for the
\* sensor width of every call made it is strictly decreasing in the HFOV over
\* the tabulated angles of (0, 180) degrees, and the call for sensor width 24
\* and HFOV 90 degrees gives 12.0 to within a thousandth.
C15_FocalLength ==
    (pc \in {"als_body", "cleanup"} /\ ~IsNone(als.name) /\ ~IsNone(CurrentTimeline)) =>
        \A f \in FocalLengthCalls(Val(CurrentTimeline)) :
            /\ \A h1, h2 \in DOMAIN TanHalf :
                    h1 < h2 => FocalLength(f.sensor_width, h1) > FocalLength(f.sensor_width, h2)
            /\ \A h \in DOMAIN TanHalf :
                    /\ h < f.hfov => FocalLength(f.sensor_width, h) > FocalLength(f.sensor_width, f.hfov)
                    /\ h > f.hfov => FocalLength(f.sensor_width, h) < FocalLength(f.sensor_width, f.hfov)
            /\ (f.sensor_width = 24 /\ f.hfov = 90) =>
                    /\ FocalLength(f.sensor_width, f.hfov) >= 11999
                    /\ FocalLength(f.sensor_width, f.hfov) <= 12001

C15_Witness ==
    /\ pc = "cleanup" /\ success /\ ~IsNone(als.name)
    /\ get_focal_length(24, 90) \in FocalLengthCalls(Val(CurrentTimeline))
    /\ FocalLength(24, 90) = 12000

\* What a Group row with the parsed comment c gives, an omitted optional
\* value being None.
OwnValue(c, key) == IF Has(c, key) THEN Some(ToNumber(c[key])) ELSE None
OwnLocation(c) ==
    IF Has(c, "cameraroot_x")
    THEN Some([x |-> ToNumber(c["cameraroot_x"]), y |-> ToNumber(c["cameraroot_y"]),
               z |-> ToNumber(c["cameraroot_z"])])
    ELSE None

\* C16: a Group row resets the whole pending sequence context: after a Group
\* row is parsed, hdri, camera_hfov, pov_camera, view_id, cameraroot_yaw,
\* cameraroot_location, the camera pose and the bodies are those of that row
\* alone, and a value the row omits is absent whatever came before.
C16_GroupResetsContext ==
    [][(pc = "rows" /\ csv_rows[row_index].Type = "Group" /\ fatal' = "") =>
          LET c == ParseConfig(row'.Comment) IN
          /\ sequence_bodies' = <<>>
          /\ camera_pose' = Some(row'.Pose)
          /\ hdri_name' = IF Has(c, "hdri") THEN Some(c["hdri"]) ELSE None
          /\ camera_hfov' = OwnValue(c, "camera_hfov")
          /\ pov_camera' = IsPov(c)
          /\ view_id' = IF IsPov(c) THEN OwnValue(c, "view_id") ELSE None
          /\ cameraroot_yaw' = OwnValue(c, "cameraroot_yaw")
          /\ cameraroot_location' = OwnLocation(c)]_vars

\* The Body row at position i is the last row of its run of Body rows.
LastOfRun(i) == i = Len(csv_rows) \/ csv_rows[i + 1].Type # "Body"

\* C17: each maximal run of consecutive Body rows is flushed into
\* add_level_sequence exactly once, at its last row, for any values in the
\* Index column: every flush is at the last row of a run, no two flushes are
\* for the same run (so no Body row is in the body list of two flushes), a run
\* that was scanned without failure has been flushed, and the scan never reads
\* a row beyond the end of the file.
C17_FlushAtLastRowOfRun ==
    /\ fatal # "LookAheadIndexError"
    /\ \A k \in DOMAIN calls : LastOfRun(calls[k].row)
    /\ \A k1, k2 \in DOMAIN calls : k1 # k2 => calls[k1].group # calls[k2].group
    /\ (pc = "done" /\ exit_status = Some(0)) =>
           \A i \in DOMAIN csv_rows :
               (csv_rows[i].Type = "Body" /\ LastOfRun(i)) =>
                   \E k \in DOMAIN calls : calls[k].row = i

\* The head-socket attach sections of the POV cameras of ls, as
\* <<binding, track>> positions.
HeadAttachSections(ls) ==
    {bt \in UNION {{<<i, t>> : t \in DOMAIN ls.bindings[i].tracks} :
                       i \in BindingsWhere(ls, IsPovCamera)} :
        /\ ls.bindings[bt[1]].tracks[bt[2]].type = "Attach"
        /\ ls.bindings[bt[1]].tracks[bt[2]].socket = "head"}

\* C18: a successfully saved POV sequence with any number n >= 1 of bodies
\* holds exactly one POV camera binding and exactly one head-socket camera
\* attach section, and its camera cut refers to that one camera.
C18_OnePovCamera ==
    (pc = "cleanup" /\ success /\ pov_camera /\ ~IsNone(als.name)
        /\ IsSavedTimeline(als.name) /\ Len(sequence_bodies) >= 1) =>
        LET ls == Val(CurrentTimeline) IN
        /\ Cardinality(BindingsWhere(ls, IsPovCamera)) = 1
        /\ Cardinality(HeadAttachSections(ls)) = 1
        /\ ~IsNone(ls.camera_cut)
        /\ ~IsNone(Val(ls.camera_cut).camera)
        /\ Val(Val(ls.camera_cut).camera) \in BindingsWhere(ls, IsPovCamera)

\* C19: if pov_camera is set and the iteration of body index 0 has produced
\* no skeletal-rig binding, add_level_sequence returns failure: the timeline is
\* not saved and holds no POV camera binding, and the run exits with failure.
C19_NoRigFailsSequence ==
    /\ (pov_camera /\ pc \in {"als_body", "cleanup"} /\ ~IsNone(als.name)
           /\ ~IsNone(CurrentTimeline)
           /\ (pc = "cleanup" \/ als.sequence_body_index > 1)
           /\ BindingsWhere(Val(CurrentTimeline), IsRig) = {}) =>
          /\ pc = "cleanup"
          /\ ~success
          /\ ~Val(CurrentTimeline).saved
          /\ BindingsWhere(Val(CurrentTimeline), IsPovCamera) = {}
    /\ (pc = "done" /\ fatal = "PovRig") => exit_status = Some(1)

C19_Witness ==
    /\ pc = "cleanup" /\ pov_camera /\ fatal = "PovRig" /\ ~success
    /\ BindingsWhere(Val(CurrentTimeline), IsBody) # {}
    /\ BindingsWhere(Val(CurrentTimeline), IsRig) = {}
    /\ ~Val(CurrentTimeline).saved

IsCameraRoot(b) == b.name = "BE_CameraRoot"

\* Where the camera root is to be placed: the given location, or the root
\* actor's current location when only the yaw is given.
CameraRootTarget ==
    IF IsNone(cameraroot_location) THEN CameraRootActorLocation ELSE Val(cameraroot_location)

\* C20: whenever cameraroot_yaw or cameraroot_location is given (either one
\* alone or both), the camera-root override step of add_level_sequence raises
\* no error in any camera mode, and when the step completes the camera root
\* binding's location defaults are the given location, or the root actor's
\* current location when only the yaw is given.
C20_CameraRootOverride ==
    [][(pc = "als_setup" /\ (~IsNone(cameraroot_yaw) \/ ~IsNone(cameraroot_location))) =>
          /\ fatal' # "TransformChannelsNone"
          /\ pc' = "als_body" =>
                LET ls == Val(level_sequences'[Val(als.name)]) IN
                /\ BindingsWhere(ls, IsCameraRoot) # {}
                /\ \A i \in BindingsWhere(ls, IsCameraRoot) :
                       /\ ls.bindings[i].tracks[1].defaults.x = Some(CameraRootTarget.x)
                       /\ ls.bindings[i].tracks[1].defaults.y = Some(CameraRootTarget.y)
                       /\ ls.bindings[i].tracks[1].defaults.z = Some(CameraRootTarget.z)]_vars

\* The keys of the transform track of the camera root binding of ls.
CameraRootKeys(ls) == ls.bindings[Val(BindingNamed(ls, "BE_CameraRoot"))].tracks[1].keys

IsFresh(ls) ==
    /\ ~ls.saved
    /\ IsNone(ls.playback_end)
    /\ BindingsWhere(ls, IsTagged) = {}

\* C22: creating a timeline replaces any artifact of the same name: the create
\* step leaves at the path either nothing or a fresh timeline, whatever was
\* there before, and a timeline saved for a sequence name reflects the Group
\* that was flushed last under that name (its frames, its HDRI, its bodies).
C22_CreateReplaces ==
    [][/\ (pc = "als_create" /\ ~IsNone(als.name) /\ pc' \in {"als_setup", "cleanup"}) =>
             \/ IsNone(level_sequences'[Val(als.name)])
             \/ IsFresh(Val(level_sequences'[Val(als.name)]))
       /\ (pc = "als_body" /\ pc' = "cleanup" /\ success') =>
             LET ls == Val(level_sequences'[Val(als.name)]) IN
             /\ ls.saved
             /\ ls.playback_end = Some(sequence_frames)
             /\ ls.hdri = hdri_name
             /\ Cardinality(BindingsWhere(ls, IsBody)) = Len(sequence_bodies)]_vars

\* Two Groups of the same sequence name, the first with an HDRI and the
\* second without, and the timeline saved for the second.
C22_Witness ==
    /\ pc = "cleanup" /\ success /\ Len(calls) = 2
    /\ calls[1].name = calls[2].name /\ calls[1].group < calls[2].group
    /\ IsNone(hdri_name)
    /\ IsSavedTimeline(als.name)
    /\ IsNone(Val(CurrentTimeline).hdri)
    /\ Cardinality(BindingsWhere(Val(CurrentTimeline), IsBody)) = 1

\* The bodies of the pending sequence that are in clothing-overlay mode, as
\* body indices.
OverlayBodies ==
    {i - 1 : i \in {j \in DOMAIN sequence_bodies :
                      ~IsNone(sequence_bodies[j].texture_clothing_overlay)}}

\* C23: for a body processed in clothing-overlay mode neither a clothing
\* geometry track nor a static-hair attachment is added to the timeline; hair
\* is attached only for bodies not in overlay mode.
C23_OverlayHasNoClothingNoHair ==
    (pc \in {"als_body", "cleanup"} /\ ~IsNone(als.name) /\ ~IsNone(CurrentTimeline)) =>
        \A i \in BindingsWhere(Val(CurrentTimeline), IsTagged) :
            LET b == Val(CurrentTimeline).bindings[i] IN
            (IsClothing(b) \/ IsHair(b)) => b.body \notin OverlayBodies

\* The value of key k in a Comment field as the "="-separated parts of
\* everything after the first "=" of the last segment that has the key: a
\* value with no "=" in it is one part.
WholeValue(comment, k) == Tail(comment[LastSegment(comment, k)])

\* C24: Comment parsing splits the field on ";" and each segment on its first
\* "=" only: the value used for a key is everything after the first "=" of
\* the last segment with that key, for the sequence_name and frames of a Group
\* row and the texture_body of a Body row.
C24_ValueAfterFirstEquals ==
    [][/\ (pc = "rows" /\ csv_rows[row_index].Type = "Group" /\ fatal' = "") =>
             /\ WholeValue(row'.Comment, "sequence_name") = <<Val(sequence_name')>>
             /\ Len(WholeValue(row'.Comment, "frames")) = 1
             /\ sequence_frames' = ToNumber(WholeValue(row'.Comment, "frames")[1])
       /\ (/\ pc = "rows" /\ csv_rows[row_index].Type = "Body"
           /\ Len(sequence_bodies') = Len(sequence_bodies) + 1
           /\ ~IsNone(sequence_bodies'[Len(sequence_bodies')].texture_body)) =>
             WholeValue(row'.Comment, "texture_body") =
                 <<Val(sequence_bodies'[Len(sequence_bodies')].texture_body)>>]_vars

\* C25: a Body name is split at its final underscore, subject being everything
\* before it and animation id everything after it; only a Body name with no
\* underscore is a parse error, and that error stops the run with failure
\* before any timeline is created for the current group.
C25_BodyNameSplit ==
    /\ (row.Type = "Body" /\ fatal = "" /\ sequence_bodies # <<>>) =>
          /\ Len(row.Body) >= 2
          /\ sequence_bodies[Len(sequence_bodies)].subject =
                 SubSeq(row.Body, 1, Len(row.Body) - 1)
          /\ sequence_bodies[Len(sequence_bodies)].body_path.asset = row.Body
    /\ fatal = "InvalidBodyName" =>
          /\ Len(row.Body) = 1
          /\ pc \in {"finish", "done"}
          /\ ~success
          /\ pc = "done" => exit_status = Some(1)
          /\ \A k \in DOMAIN calls : calls[k].group # GroupOf(row_index)

\* Run r is building a sequence: its body is tagged and its timeline is not
\* saved yet.
Building(r) == runs[r].pc = "save"

\* C26: two generator runs against the same content root are unsafe because
\* neither step is transactional: the layer cleanup of a run deletes every
\* be_actor layer, also while the other run is building a sequence, and the
\* create step of a run replaces the timeline at its path by a fresh one, also
\* when the other run has created or saved a timeline of that name.
C26_StepsNotTransactional ==
    [][\A r \in RunIds :
          /\ (runs[r].pc = "cleanup" /\ runs'[r].pc # "cleanup") => ActorLayers' = {}
          /\ (runs[r].pc = "create" /\ runs'[r].pc = "body") =>
                /\ IsFresh(Val(level_sequences'[Job(r)]))
                /\ \A q \in RunIds \ {r} :
                       (runs[q].pc \in {"body", "save"} /\ Job(q) = Job(r)) =>
                           runs'[q].deleted]_vars

\* An interleaving of the claim: run 2 is still building a sequence whose
\* be_actor layer the cleanup of run 1 has deleted, and the timeline run 2
\* created is no longer the asset at its path.
C26_Witness ==
    /\ Building(2) /\ ActorLayers = {}
    /\ runs[2].deleted
    /\ runs[1].pc \in {"create", "done"} /\ runs[1].saved # {}

\* The input sequences of the expander: the Group rows followed by a Body row.
PanoSequences ==
    {g \in DOMAIN pano.rows :
        /\ pano.rows[g].Type = "Group"
        /\ g + 1 <= Len(pano.rows)
        /\ pano.rows[g + 1].Type = "Body"}

\* The position of input sequence g among the input sequences.
PanoRank(g) == Cardinality({h \in PanoSequences : h <= g})

PanoCommentRows == {k \in DOMAIN pano.expanded_rows : pano.expanded_rows[k].Type = "Comment"}

\* The first output row of input sequence g in view v (1..6).
PanoGroupAt(g, v) == Cardinality(PanoCommentRows) + 12 * (PanoRank(g) - 1) + 2 * (v - 1) + 1

ViewOrder == <<"_front", "_back", "_left", "_right", "_up", "_down">>

PanoName(k) == ParseConfig(pano.expanded_rows[k].Comment)["sequence_name"]

\* C27: the written output of the panoramic expander has, for each input
\* sequence (a Group row followed by a Body row), exactly six sequences in
\* the order front, back, left, right, up, down, with view_id 0..5,
\* pov_camera=true and pairwise distinct names ending in _pov_<view>; it has
\* at most one Comment row, which is the first row; and the Index of its
\* rows is 0..n-1 in row order.
C27_SixViewsPerSequence ==
    pano.pc = "written" =>
        LET out == pano.expanded_rows
        IN  /\ Cardinality(PanoCommentRows) <= 1
            /\ PanoCommentRows \subseteq {1}
            /\ \A k \in DOMAIN out : out[k].Index = str(k - 1)
            /\ Len(out) = Cardinality(PanoCommentRows) + 12 * Cardinality(PanoSequences)
            /\ \A g \in PanoSequences : \A v \in 1..6 :
                 LET k == PanoGroupAt(g, v)
                     config == ParseConfig(out[k].Comment)
                 IN  /\ out[k].Type = "Group"
                     /\ out[k + 1].Type = "Body"
                     /\ config["pov_camera"] = "true"
                     /\ config["view_id"] = str(v - 1)
                     /\ config["sequence_name"] =
                            <<ParseConfig(pano.rows[g].Comment)["sequence_name"], "_pov",
                              ViewOrder[v]>>
                     /\ \A w \in 1..6 : w # v => PanoName(PanoGroupAt(g, w)) # PanoName(k)

\* An input with two Comment rows and one sequence has been written as 13
\* rows: one Comment row and the sequence in six views.
C27_Witness ==
    /\ pano.pc = "written"
    /\ Cardinality({i \in DOMAIN pano.rows : pano.rows[i].Type = "Comment"}) = 2
    /\ Cardinality(PanoSequences) = 1
    /\ Len(pano.expanded_rows) = 13
    /\ pano.expanded_rows[13].Index = "12"

PanoGroups == {g \in DOMAIN pano.rows : pano.rows[g].Type = "Group"}

\* The Body rows input Group row g has up to the next Group row or the end of
\* the file, in row order.
RECURSIVE PanoBodiesFrom(_)
PanoBodiesFrom(i) ==
    IF i > Len(pano.rows) \/ pano.rows[i].Type = "Group" THEN <<>>
    ELSE IF pano.rows[i].Type = "Body"
    THEN <<pano.rows[i]>> \o PanoBodiesFrom(i + 1)
    ELSE PanoBodiesFrom(i + 1)

\* The output sequences: the Group rows of the output.
PanoOutGroups == {k \in DOMAIN pano.expanded_rows : pano.expanded_rows[k].Type = "Group"}

RECURSIVE PanoOutBodiesFrom(_)
PanoOutBodiesFrom(k) ==
    IF k > Len(pano.expanded_rows) \/ pano.expanded_rows[k].Type = "Group" THEN <<>>
    ELSE IF pano.expanded_rows[k].Type = "Body"
    THEN <<pano.expanded_rows[k]>> \o PanoOutBodiesFrom(k + 1)
    ELSE PanoOutBodiesFrom(k + 1)

\* Output Group row k comes from input Group row g: its sequence name is the
\* name of g with a view suffix.
PanoFrom(k, g) ==
    \E v \in 1..6 :
        PanoName(k) = <<ParseConfig(pano.rows[g].Comment)["sequence_name"], "_pov", ViewOrder[v]>>

Content(r) == [Body |-> r.Body, Pose |-> r.Pose, Comment |-> r.Comment]

SameBodies(a, b) ==
    /\ Len(a) = Len(b)
    /\ \A i \in DOMAIN a : Content(a[i]) = Content(b[i])

\* C28: in the written output of the panoramic expander every Group row of
\* the input has output sequences, and each output sequence of a Group row
\* has the Body rows the input Group row had up to the next Group row or the
\* end of the file: as many, in the same order, with the same pose and Comment.
C28_SequenceContentPreserved ==
    pano.pc = "written" =>
        \A g \in PanoGroups :
            /\ \E k \in PanoOutGroups : PanoFrom(k, g)
            /\ \A k \in PanoOutGroups :
                   (PanoFrom(k, g) /\ \A h \in PanoGroups \ {g} : ~PanoFrom(k, h)) =>
                       SameBodies(PanoOutBodiesFrom(k + 1), PanoBodiesFrom(g + 1))

IsHairTemplate(template) == template[Len(template)] = "Hair"

HairSuffixes(template) == Cardinality({i \in DOMAIN template : template[i] = "Hair"})

\* The step parses a Body row whose Comment has the hair key.
ParsesHairRow ==
    /\ pc = "rows"
    /\ csv_rows[row_index].Type = "Body"
    /\ row'.Type = "Body"
    /\ BodyError(row'.Comment) = ""
    /\ Has(ParseConfig(row'.Comment), "hair")

\* The step creates the timeline of an HDRI sequence.
CreatesHdriSequence ==
    /\ pc = "als_create"
    /\ ~IsNone(als.name)
    /\ ~IsNone(hdri_name)
    /\ ~IsNone(level_sequences'[Val(als.name)])

\* C29: the HDRI template path gets the _Hair suffix at the first Body row
\* parsed with a hair key and at no other step, keeps it for the rest of the
\* run and never has it twice; an HDRI sequence is duplicated from the
\* template path as it is when the sequence is flushed, so from the plain
\* template before that row and from the _Hair template at or after it,
\* whether or not its own bodies have hair.
C29_HairTemplateSticky ==
    [][/\ HairSuffixes(level_sequence_hdri_template') <= 1
       /\ IsHairTemplate(level_sequence_hdri_template) =>
              level_sequence_hdri_template' = level_sequence_hdri_template
       /\ ~IsHairTemplate(level_sequence_hdri_template) =>
              (IsHairTemplate(level_sequence_hdri_template') <=> ParsesHairRow)
       /\ CreatesHdriSequence =>
              Val(level_sequences'[Val(als.name)]).template =
                  Some(level_sequence_hdri_template)]_vars

\* The second sequence of a run is an HDRI sequence whose only body has no
\* hair, and its timeline is duplicated from the _Hair template that a body
\* of the first sequence switched to.
C29_Witness ==
    /\ pc = "als_setup"
    /\ Len(calls) = 2
    /\ \A i \in DOMAIN sequence_bodies : IsNone(sequence_bodies[i].hair_path)
    /\ sequence_bodies # <<>>
    /\ ~IsNone(hdri_name)
    /\ Val(level_sequences[Val(als.name)]).template = Some(<<"LS", "Template", "HDRI", "Hair">>)

RECURSIVE Concat(_, _)
Concat(batches, k) ==
    IF k > Len(batches) THEN <<>> ELSE batches[k].paths \o Concat(batches, k + 1)

Elements(paths) == {paths[i] : i \in DOMAIN paths}

AllBatchesRun == shard.current_batch = shard.num_batches

\* The slices of the batches 0..num_batches-1 are pairwise disjoint and
\* their concatenation in batch order is the whole list.
SlicesPartition ==
    /\ \A j, k \in DOMAIN shard.batches :
          j # k => Elements(shard.batches[j].paths) \cap Elements(shard.batches[k].paths) = {}
    /\ Concat(shard.batches, 1) = ImportList(shard.n)

\* C30, as claimed: when every batch has run the slices partition the import
\* list, and start_index and end_index of every batch lie within the list.
C30_ShardsPartitionInBounds ==
    AllBatchesRun =>
        /\ SlicesPartition
        /\ \A k \in DOMAIN shard.batches :
              /\ shard.batches[k].start_index \in 0..shard.n
              /\ shard.batches[k].end_index \in 0..shard.n

\* C30, amended: when every batch has run the slices partition the import
\* list; end_index of every batch lies within the list, and a batch whose
\* start_index lies beyond the list selects an empty slice.
C30_ShardsPartition ==
    AllBatchesRun =>
        /\ SlicesPartition
        /\ \A k \in DOMAIN shard.batches :
              /\ shard.batches[k].end_index \in 0..shard.n
              /\ shard.batches[k].start_index >= 0
              /\ shard.batches[k].start_index > shard.n => shard.batches[k].paths = <<>>

\* Five files in four batches: sections of two files, the third batch has the
\* last file and the fourth starts at index 6, beyond the list.
C30_Witness ==
    /\ AllBatchesRun
    /\ shard.n = 5 /\ shard.num_batches = 4
    /\ shard.batches[3].paths = <<5>>
    /\ shard.batches[4].start_index = 6
    /\ shard.batches[4].paths = <<>>


====
